---- MODULE Spec2Model ----
(***************************************************************************)
(* A model of arkimedes, a client that mints and maintains ARK identifiers *)
(* at the EZID registry.                                                   *)
(*                                                                         *)
(*   SpecCodec  the ANVL record codec of src/src/arkimedes/ezid.py         *)
(*              (build_anvl, anvl_to_dict, anvls_to_dict), as pure         *)
(*              functions over character sequences.                        *)
(*   SpecPoll   batch_download of src/src/arkimedes/ezid.py: the export    *)
(*              request and the polling loop.                              *)
(*   Spec       the identifier lifecycle of src/arkimedes.py (submit_md,   *)
(*              upload, add_ark_to_db) over the local cache of             *)
(*              src/arkimedes/db.py and the registry client of             *)
(*              src/arkimedes/ezid.py.                                     *)
(*   SpecCache  single calls of the cache functions of                     *)
(*              src/arkimedes/db.py.                                       *)
(*   SpecQuery  query of src/src/arkimedes/ezid.py: the result pages it    *)
(*              fetches and the rows it returns.                           *)
(*   SpecTsv    load_anvl_as_dict_from_tsv and load_anvl_as_str_from_tsv   *)
(*              of src/src/arkimedes/ezid.py.                              *)
(*   SpecRun    mint-anvl runs of src/src/arkimedes/__main__.py (main,     *)
(*              submit_md, upload) over the registry's search and its      *)
(*              mint and update requests.                                  *)
(*                                                                         *)
(* A Python str is a sequence of one-character strings. In the codec a     *)
(* Python dict is the sequence of its <<key, value>> items in insertion    *)
(* order; in the lifecycle, where order plays no part, it is a function    *)
(* from keys to values.                                                    *)
(***************************************************************************)
EXTENDS Naturals, Integers, Sequences, FiniteSets, TLC

VARIABLES
    \* ---- codec (SpecCodec)
    codec_pc,       \* "dict" | "anvl" | "anvls" | "done": the next call
    codec_kind,     \* which input family the run started from
    anvl_dict,      \* the mapping handed to build_anvl
    records,        \* the record texts a multi-record body was joined from
    anvl,           \* the text handed to anvl_to_dict / anvls_to_dict
    decoded,        \* the value the decoder returned
    \* ---- batch_download (SpecPoll)
    poll_pc,        \* where batch_download stands
    format_,        \* its format_ argument
    args,           \* its args argument: "" or column parameters
    r_post,         \* the answer to the export request: [ok, marker]
    r_status,       \* r.status_code of the last GET
    sleep_count,    \* the loop counter
    file,           \* the bodies written to file_name, in order
    printed,        \* what was printed, in order
    gets,           \* registry side: GETs received on the export URL
    ready_after,    \* registry side: GETs answered non-200 before the file is ready
    \* ---- identifier lifecycle (Spec)
    db,             \* the arks table: its rows in insertion (rowid) order
    ezid,           \* registry side: identifier -> the metadata it stores
    proc,           \* per process: the locals of main / submit_md / upload
    submissions,    \* the submissions that ended, in the order they ended
    started,        \* how many submissions have begun
    concurrent,     \* whether the operator runs processes side by side
    \* ---- single calls of the cache functions (SpecCache)
    cache_pc,       \* the function to call, or what was called
    cache0,         \* the arks table before the call
    q_ark,          \* the ark argument of update_db_record
    q_dict,         \* the ark_dict argument of update_db_record
    q_url,          \* the url argument of find_url
    q_title,        \* the title argument of input_is_replaceable
    q_file,         \* the text of the batch_file of load_anvl_file_into_db
    q_ret,          \* what the call returned
    \* ---- query (SpecQuery)
    qry_pc,         \* where query stands
    site,           \* registry side: the result pages of the search, in order
    page_gets,      \* registry side: the p parameter of each GET, in order
    columns,        \* titles, creators, ...: the cells accumulated per column
    result_pages,   \* what get_all_results returned for the first page
    results,        \* the rows query returns
    \* ---- the delimited-file loaders (SpecTsv)
    tsv_pc,         \* the loader to call, or "done"
    tsv_file,       \* the file: [delimiter, header, rows, text]
    tsv_dicts,      \* what load_anvl_as_dict_from_tsv yielded: [err, rows]
    tsv_strs,       \* what load_anvl_as_str_from_tsv yielded: [err, rows]
    \* ---- a mint-anvl run of the package entry point (SpecRun)
    run,            \* the locals of main and submit_md: [pc, args, source, ...]
    reusables,      \* the rows the reusables generator has not yielded yet
    registry,       \* registry side: identifier -> [title, target]
    run_log,        \* the requests and generator steps so far, in order
    run_no          \* how many runs have started

codecVars == <<codec_pc, codec_kind, anvl_dict, records, anvl, decoded>>

lifeVars == <<db, ezid, proc, submissions, started, concurrent>>

cacheVars == <<cache_pc, cache0, q_ark, q_dict, q_url, q_title, q_file, q_ret>>

queryVars == <<qry_pc, site, page_gets, columns, result_pages, results>>

tsvVars == <<tsv_pc, tsv_file, tsv_dicts, tsv_strs>>

runVars == <<run, reusables, registry, run_log, run_no>>

pollVars == <<poll_pc, format_, args, r_post, r_status, sleep_count, file,
              printed, gets, ready_after>>

-----------------------------------------------------------------------------
(* Bounds of the model.                                                    *)

\* longest key or value of a mapping handed to build_anvl
MaxStrLen == 2
\* longest single line handed to anvl_to_dict
MaxLineLen == 4
\* most records joined into one multi-record body
MaxRecords == 2
\* most GETs the export URL answers non-200 before it answers 200
MaxReadyAfter == 62
\* most submissions (calls of submit_md) over all runs
MaxSubmissions == 2
\* most records one run submits
MaxBatch == 2
\* most rows of a cache handed to a single call of a cache function
MaxCacheRows == 2
\* most result pages of a search
MaxPages == 2
\* most cells of one column on one results page
MaxCells == 2

-----------------------------------------------------------------------------
(* Python str and list helpers.                                            *)

NL == "\n"
SP == " "
COLON == ":"

\* str.strip() with no argument strips these (of the characters modelled)
Whitespace == {" ", "\n", "\t", "\r"}

\* all strings over alphabet cs whose length is in lo..hi
StringsOver(cs, lo, hi) == UNION {[1..n -> cs] : n \in lo..hi}

\* s[n:]
SliceFrom(s, n) == SubSeq(s, n + 1, Len(s))

\* s[:n]
SliceTo(s, n) == SubSeq(s, 1, n)

\* s.startswith(p)
startswith(s, p) == Len(s) >= Len(p) /\ SubSeq(s, 1, Len(p)) = p

\* s.find(p): the least 0-based index at which p occurs in s, or -1
find(s, p) ==
    LET hits == {i \in 0..(Len(s) - Len(p)) : SubSeq(s, i + 1, i + Len(p)) = p}
    IN  IF hits = {} THEN -1
        ELSE CHOOSE i \in hits : \A j \in hits : i <= j

\* s.rfind(p): the greatest 0-based index at which p occurs in s, or -1
rfind(s, p) ==
    LET hits == {i \in 0..(Len(s) - Len(p)) : SubSeq(s, i + 1, i + Len(p)) = p}
    IN  IF hits = {} THEN -1
        ELSE CHOOSE i \in hits : \A j \in hits : i >= j

\* s.lstrip()
RECURSIVE lstrip(_)
lstrip(s) ==
    IF s # <<>> /\ Head(s) \in Whitespace THEN lstrip(Tail(s)) ELSE s

\* s.rstrip()
RECURSIVE rstrip(_)
rstrip(s) ==
    IF s # <<>> /\ s[Len(s)] \in Whitespace
    THEN rstrip(SubSeq(s, 1, Len(s) - 1)) ELSE s

\* s.strip()
strip(s) == rstrip(lstrip(s))

\* s.split(sep): every occurrence of sep, scanned left to right, cuts
RECURSIVE split(_, _)
split(s, sep) ==
    LET i == find(s, sep)
    IN  IF i = -1 THEN <<s>>
        ELSE <<SliceTo(s, i)>> \o split(SliceFrom(s, i + Len(sep)), sep)

\* s.split(sep, 1): cut at the first occurrence of sep only
split1(s, sep) ==
    LET i == find(s, sep)
    IN  IF i = -1 THEN <<s>>
        ELSE <<SliceTo(s, i), SliceFrom(s, i + Len(sep))>>

\* sep.join(parts)
RECURSIVE join(_, _)
join(sep, parts) ==
    IF parts = <<>> THEN <<>>
    ELSE IF Len(parts) = 1 THEN parts[1]
    ELSE parts[1] \o sep \o join(sep, Tail(parts))

\* s.replace(old, new)
replace(s, old, new) == join(new, split(s, old))

CR == "\r"

\* open(file, "r"): the text as read() and the line iterator give it,
\* with "\r\n" and "\r" turned into "\n" (universal newlines)
universal_newlines(text) == replace(replace(text, <<CR, NL>>, <<NL>>), <<CR>>, <<NL>>)

-----------------------------------------------------------------------------
(* Python dict helpers: a dict is the sequence of its items.               *)

dict_keys(d) == {d[i][1] : i \in 1..Len(d)}

dict_has(d, k) == \E i \in 1..Len(d) : d[i][1] = k

\* d[k], for a key d has
dict_at(d, k) == d[CHOOSE i \in 1..Len(d) : d[i][1] = k][2]

\* d[k] = v: a new key is appended, an old key keeps its place
dict_set(d, k, v) ==
    IF dict_has(d, k)
    THEN [i \in 1..Len(d) |-> IF d[i][1] = k THEN <<k, v>> ELSE d[i]]
    ELSE Append(d, <<k, v>>)

-----------------------------------------------------------------------------
(* The record codec, src/src/arkimedes/ezid.py.                            *)

\* the reserved key the identifier line is stored under
ARK_KEY == <<"a", "r", "k">>

\* a variant that writes the fields last to first
build_anvl_reversed(d) ==
    join(<<NL>>, [i \in 1..Len(d) |->
                     join(<<COLON, SP>>, <<d[Len(d) + 1 - i][1], d[Len(d) + 1 - i][2]>>)])

\* a variant that ends every line, the last included, with a newline
build_anvl_newline_ended(d) ==
    IF d = <<>> THEN <<>>
    ELSE join(<<NL>>, [i \in 1..Len(d) |-> join(<<COLON, SP>>, <<d[i][1], d[i][2]>>)])
         \o <<NL>>

\* ": ".join((k, anvl_dict[k])) for each key, then "\n".join(lines)
build_anvl(d) ==
    join(<<NL>>, [i \in 1..Len(d) |-> join(<<COLON, SP>>, <<d[i][1], d[i][2]>>)])

\* a variant that cuts a line at its last colon
split_field_rsplit(line) ==
    LET i == rfind(line, <<COLON>>)
    IN  IF i = -1 THEN <<line>>
        ELSE <<SliceTo(line, i), SliceFrom(line, i + 1)>>

\* a variant that takes a line with no colon as a key with an empty value
split_field_lenient(line) ==
    IF find(line, <<COLON>>) = -1 THEN <<line, <<>>>>
    ELSE split1(line, <<COLON>>)

\* line.split(":", 1) of anvl_to_dict
split_field(line) == split1(line, <<COLON>>)

\* One pass of anvl_to_dict's loop over the lines still to read. acc is
\* [err, d]: err is set when `k, v = line.split(":", 1)` finds no colon and
\* raises ValueError, which ends the call with no mapping returned.
RECURSIVE anvl_lines(_, _)
anvl_lines(lines, acc) ==
    IF lines = <<>> \/ acc.err THEN acc
    ELSE
        LET line == Head(lines)
            kv   == split_field(line)
        IN  IF startswith(line, <<COLON, COLON>>)
            THEN anvl_lines(Tail(lines),
                     [acc EXCEPT !.d = dict_set(acc.d, ARK_KEY, SliceFrom(line, 3))])
            ELSE IF strip(line) # <<>>
            THEN IF Len(kv) < 2
                 THEN [err |-> TRUE, d |-> <<>>]
                 ELSE anvl_lines(Tail(lines),
                          [acc EXCEPT !.d = dict_set(acc.d, strip(kv[1]), strip(kv[2]))])
            ELSE anvl_lines(Tail(lines), acc)

anvl_to_dict(text) ==
    anvl_lines(split(text, <<NL>>), [err |-> FALSE, d |-> <<>>])

\* `for line in fh`: the lines of a file; the text after the last newline
\* is a line when it is not empty
file_lines(text) ==
    LET parts == split(universal_newlines(text), <<NL>>)
    IN  IF parts[Len(parts)] = <<>> THEN SubSeq(parts, 1, Len(parts) - 1)
        ELSE parts

\* load_anvl_as_dict lines 272-282, the loop: ark_dict is created once,
\* before the loop, and yielded at every blank line as it then stands.
\* [err, d]: the mappings yielded, and whether line.split(":", 1) raised
RECURSIVE load_lines(_, _, _)
load_lines(lines, ark_dict, yielded) ==
    IF lines = <<>> THEN [err |-> FALSE, d |-> yielded]
    ELSE
        LET line == strip(Head(lines))
            kv   == split_field(line)
        IN  IF line = <<>>
            THEN load_lines(Tail(lines), ark_dict, Append(yielded, ark_dict))
            ELSE IF startswith(line, <<COLON, COLON>>)
            THEN load_lines(Tail(lines),
                            dict_set(ark_dict, ARK_KEY, SliceFrom(line, 3)),
                            yielded)
            ELSE IF Len(kv) < 2 THEN [err |-> TRUE, d |-> yielded]
            ELSE load_lines(Tail(lines),
                            dict_set(ark_dict, kv[1], strip(kv[2])), yielded)

\* load_anvl_as_dict(anvl_file), drained, for a file whose text is text
load_anvl_as_dict(text) == load_lines(file_lines(text), <<>>, <<>>)

\* a variant that cuts the body at every newline
split_records_single(text) == split(strip(text), <<NL>>)

\* a variant that splits the body as it came
split_records_unstripped(text) == split(text, <<NL, NL>>)

\* anvls.strip().split("\n\n") of anvls_to_dict
split_records(text) == split(strip(text), <<NL, NL>>)

\* [anvl_to_dict(a) for a in anvls.strip().split("\n\n")]: one ValueError
\* ends the whole call
anvls_to_dict(text) ==
    LET parts == split_records(text)
        each  == [i \in 1..Len(parts) |-> anvl_to_dict(parts[i])]
    IN  IF \E i \in 1..Len(each) : each[i].err
        THEN [err |-> TRUE, ds |-> <<>>]
        ELSE [err |-> FALSE, ds |-> [i \in 1..Len(each) |-> each[i].d]]

-----------------------------------------------------------------------------
(* SpecCodec: the inputs and the calls.                                    *)

CodecChars == {"a", ":", " "}

\* keys and values: non-empty, no newline
FieldStrings == StringsOver(CodecChars, 1, MaxStrLen)

\* mappings of one or two fields with distinct keys
Mappings ==
    {<<>>}
    \cup {<< <<k, v>> >> : k \in FieldStrings, v \in FieldStrings}
    \cup {m \in {<< <<k1, v1>>, <<k2, v2>> >> :
                    k1 \in FieldStrings, v1 \in {<<"a">>, <<"a", ":">>, <<" ">>},
                    k2 \in FieldStrings, v2 \in {<<"a">>, <<":", "a">>}} :
            m[1][1] # m[2][1]}

\* single lines, with or without a colon
Lines == StringsOver(CodecChars, 0, MaxLineLen)

\* the lines texts of two lines are made of
TextLines ==
    {<<"a", ":", " ", "b">>, <<"b", ":", "a">>, <<"a">>, <<"b", " ">>,
     <<>>, <<" ">>, <<":", ":", " ", "a">>}

\* texts of two lines
Texts == {l1 \o <<NL>> \o l2 : l1 \in TextLines, l2 \in TextLines}

\* the lines records are made of
RecordLines == {
    <<"a", ":", " ", "b">>,                \* a: b
    <<"b", ":", " ", "a", ":", "b">>,      \* b: a:b
    <<"b", ":">>,                          \* b:       (empty value)
    <<"a", " ", ":", "b", " ">>,           \* a :b_    (padded)
    <<":", ":", " ", "a", "b">>,           \* :: ab
    <<":", ":", " ", "a", " ">>,           \* :: a_    (padded identifier)
    <<" ", ":", ":", "a">>                 \* _::a
    }

\* a record is one or two lines joined by a newline
Records ==
    RecordLines
    \cup {l1 \o <<NL>> \o l2 : l1 \in RecordLines, l2 \in {<<"a", ":", " ", "b">>, <<"b", ":">>}}

RecordLists == UNION {[1..n -> Records] : n \in 1..MaxRecords}

\* what follows the last record of a body
Trailers == {<<>>, <<NL>>, <<NL, NL>>, <<NL, NL, NL>>}

\* what separates two records of a file: one blank line, or two, or one
\* blank line of a file whose lines end in "\r\n"
Gaps == {<<NL, NL>>, <<NL, NL, NL>>, <<CR, NL, CR, NL>>}

\* what follows the last record of a file: nothing, the newline that ends
\* its last line, or a blank line as well
FileEnds == {<<>>, <<NL>>, <<NL, NL>>}

NoDict == [err |-> FALSE, d |-> <<>>]

\* the codec at rest, for the specifications that do not run it
CodecIdle ==
    /\ codec_pc = "done"
    /\ codec_kind = "none"
    /\ anvl_dict = <<>>
    /\ records = <<>>
    /\ anvl = <<>>
    /\ decoded = NoDict

CodecInit ==
    /\ decoded = NoDict
    /\ \/ /\ codec_kind = "dict"
          /\ codec_pc = "dict"
          /\ anvl_dict \in Mappings
          /\ records = <<>>
          /\ anvl = <<>>
       \/ /\ codec_kind = "line"
          /\ codec_pc = "anvl"
          /\ anvl_dict = <<>>
          /\ records = <<>>
          /\ anvl \in Lines
       \/ /\ codec_kind = "text"
          /\ codec_pc = "anvl"
          /\ anvl_dict = <<>>
          /\ records = <<>>
          /\ anvl \in Texts
       \/ /\ codec_kind = "records"
          /\ codec_pc = "anvls"
          /\ anvl_dict = <<>>
          /\ records \in RecordLists
          /\ \E t \in Trailers : anvl = join(<<NL, NL>>, records) \o t
       \/ /\ codec_kind = "file"
          /\ codec_pc = "file"
          /\ anvl_dict = <<>>
          /\ records \in RecordLists
          /\ \E gap \in Gaps, end \in FileEnds : anvl = join(gap, records) \o end

\* build_anvl(anvl_dict)
BuildAnvl ==
    /\ codec_pc = "dict"
    /\ anvl' = build_anvl(anvl_dict)
    /\ codec_pc' = "anvl"
    /\ UNCHANGED <<codec_kind, anvl_dict, records, decoded>>
    /\ UNCHANGED <<pollVars, lifeVars, cacheVars, queryVars, tsvVars, runVars>>

\* anvl_to_dict(anvl)
AnvlToDict ==
    /\ codec_pc = "anvl"
    /\ decoded' = anvl_to_dict(anvl)
    /\ codec_pc' = "done"
    /\ UNCHANGED <<codec_kind, anvl_dict, records, anvl>>
    /\ UNCHANGED <<pollVars, lifeVars, cacheVars, queryVars, tsvVars, runVars>>

\* anvls_to_dict(anvl)
AnvlsToDict ==
    /\ codec_pc = "anvls"
    /\ decoded' = anvls_to_dict(anvl)
    /\ codec_pc' = "done"
    /\ UNCHANGED <<codec_kind, anvl_dict, records, anvl>>
    /\ UNCHANGED <<pollVars, lifeVars, cacheVars, queryVars, tsvVars, runVars>>

\* list(load_anvl_as_dict(anvl_file)), each mapping taken as it is yielded
LoadAnvlAsDict ==
    /\ codec_pc = "file"
    /\ decoded' = load_anvl_as_dict(anvl)
    /\ codec_pc' = "done"
    /\ UNCHANGED <<codec_kind, anvl_dict, records, anvl>>
    /\ UNCHANGED <<pollVars, lifeVars, cacheVars, queryVars, tsvVars, runVars>>

CodecNext == BuildAnvl \/ AnvlToDict \/ AnvlsToDict \/ LoadAnvlAsDict

-----------------------------------------------------------------------------
(* batch_download, src/src/arkimedes/ezid.py 49-123.                       *)

\* `while sleep_count < 60`
MaxAttempts == 60

\* `r.status_code == 200`
HTTP_OK == 200

\* the statuses the export URL answers while the file is not ready
NotReadyStatuses == {404, 503}

Formats == {"anvl", "csv", "xml"}

\* the registry's answer to the n-th GET on the export URL
GetStatuses(n) == IF n > ready_after THEN {HTTP_OK} ELSE NotReadyStatuses

\* a variant that looks at the status alone
request_failed_status_only(r) == ~r.ok

\* `not r.ok or not r.text.startswith("success: ")`
request_failed(r) == ~r.ok \/ ~r.marker

\* what the failure branch prints before sys.exit(1)
failure_output(fmt, a) ==
    IF fmt = "csv" THEN <<"request_failure", "csv_hint">>
    ELSE <<"request_failure">>

\* the loop guard
may_poll(n) == n < MaxAttempts

PollIdle ==
    /\ poll_pc = "returned"
    /\ format_ = "anvl"
    /\ args = ""
    /\ r_post = [ok |-> TRUE, marker |-> TRUE]
    /\ r_status = 0
    /\ sleep_count = 0
    /\ file = <<>>
    /\ printed = <<>>
    /\ gets = 0
    /\ ready_after = 0

PollInit ==
    /\ poll_pc = "post"
    /\ format_ \in Formats
    /\ args \in {"", "&column=dc.title"}
    /\ r_post = [ok |-> TRUE, marker |-> TRUE]
    /\ r_status = 0
    /\ sleep_count = 0
    /\ file = <<>>
    /\ printed = <<>>
    /\ gets = 0
    /\ ready_after \in 0..MaxReadyAfter

\* lines 75-81: r = requests.post(url, data=query, ...)
PostExportRequest ==
    /\ poll_pc = "post"
    /\ \E ok \in BOOLEAN, marker \in BOOLEAN :
          r_post' = [ok |-> ok, marker |-> marker]
    /\ poll_pc' = "posted"
    /\ UNCHANGED <<format_, args, r_status, sleep_count, file, printed, gets,
                   ready_after>>
    /\ UNCHANGED <<codecVars, lifeVars, cacheVars, queryVars, tsvVars, runVars>>

\* lines 83-97: the failure branch, ending in sys.exit(1)
RequestFailure ==
    /\ poll_pc = "posted"
    /\ request_failed(r_post)
    /\ printed' = printed \o failure_output(format_, args)
    /\ poll_pc' = "exited"
    /\ UNCHANGED <<format_, args, r_post, r_status, sleep_count, file, gets,
                   ready_after>>
    /\ UNCHANGED <<codecVars, lifeVars, cacheVars, queryVars, tsvVars, runVars>>

\* lines 99-106: url = r.text[9:]; r = requests.get(url); sleep_count = 0
FirstGet ==
    /\ poll_pc = "posted"
    /\ ~request_failed(r_post)
    /\ gets' = gets + 1
    /\ r_status' \in GetStatuses(gets + 1)
    /\ sleep_count' = 0
    /\ printed' = Append(printed, "acquired_url")
    /\ poll_pc' = "loop"
    /\ UNCHANGED <<format_, args, r_post, file, ready_after>>
    /\ UNCHANGED <<codecVars, lifeVars, cacheVars, queryVars, tsvVars, runVars>>

\* lines 109-115: one pass of the loop up to the break; line 110 prints
\* a dot before the GET
LoopGet ==
    /\ poll_pc = "loop"
    /\ may_poll(sleep_count)
    /\ printed' = Append(printed, ".")
    /\ gets' = gets + 1
    /\ \E st \in GetStatuses(gets + 1) :
          /\ r_status' = st
          /\ IF st = HTTP_OK
             THEN /\ file' = Append(file, gets + 1)
                  /\ poll_pc' = "report"
             ELSE /\ file' = file
                  /\ poll_pc' = "sleep"
    /\ UNCHANGED <<format_, args, r_post, sleep_count, ready_after>>
    /\ UNCHANGED <<codecVars, lifeVars, cacheVars, queryVars, tsvVars, runVars>>

\* lines 117-118: sleep(5); sleep_count += 1
Sleep ==
    /\ poll_pc = "sleep"
    /\ sleep_count' = sleep_count + 1
    /\ poll_pc' = "loop"
    /\ UNCHANGED <<format_, args, r_post, r_status, file, printed, gets,
                   ready_after>>
    /\ UNCHANGED <<codecVars, lifeVars, cacheVars, queryVars, tsvVars, runVars>>

\* line 109: the loop guard fails
LoopExhausted ==
    /\ poll_pc = "loop"
    /\ ~may_poll(sleep_count)
    /\ poll_pc' = "report"
    /\ UNCHANGED <<format_, args, r_post, r_status, sleep_count, file, printed,
                   gets, ready_after>>
    /\ UNCHANGED <<codecVars, lifeVars, cacheVars, queryVars, tsvVars, runVars>>

\* lines 120-123: the final report; the function returns
Report ==
    /\ poll_pc = "report"
    /\ printed' = Append(printed,
                     IF r_status = HTTP_OK THEN "file_name" ELSE "download_failed_url")
    /\ poll_pc' = "returned"
    /\ UNCHANGED <<format_, args, r_post, r_status, sleep_count, file, gets,
                   ready_after>>
    /\ UNCHANGED <<codecVars, lifeVars, cacheVars, queryVars, tsvVars, runVars>>

PollNext ==
    \/ PostExportRequest
    \/ RequestFailure
    \/ FirstGet
    \/ LoopGet
    \/ Sleep
    \/ LoopExhausted
    \/ Report

-----------------------------------------------------------------------------
(* The local cache, src/arkimedes/db.py.                                   *)

\* wire field names (ANVL keys)
K_SUCCESS == <<"s", "u", "c", "c", "e", "s", "s">>
K_ERROR == <<"e", "r", "r", "o", "r">>
K_TARGET == <<"_", "t", "a", "r", "g", "e", "t">>
K_DC_TITLE == <<"d", "c", ".", "t", "i", "t", "l", "e">>
K_REPLACEABLE == <<"i", "a", "s", "t", "a", "t", "e", ".",
                   "r", "e", "p", "l", "a", "c", "e", "a", "b", "l", "e">>
K_CREATED == <<"_", "c", "r", "e", "a", "t", "e", "d">>
K_UPDATED == <<"_", "u", "p", "d", "a", "t", "e", "d">>

\* columns of the arks table (class Ark), those the lifecycle reads or writes
A_ARK == <<"a", "r", "k">>
A_TARGET == <<"t", "a", "r", "g", "e", "t">>
A_DC_TITLE == <<"d", "c", "_", "t", "i", "t", "l", "e">>
A_REPLACEABLE == <<"r", "e", "p", "l", "a", "c", "e", "a", "b", "l", "e">>
A_CREATED == <<"c", "r", "e", "a", "t", "e", "d">>

Columns == {A_ARK, A_TARGET, A_DC_TITLE, A_REPLACEABLE, A_CREATED}

\* Python's None, where a string may stand: equal to no string
NONE == <<"None">>

TRUE_STR == <<"T", "r", "u", "e">>
NOT_REPLACEABLE == <<"N", "O", "T", " ", "R", "E", "P", "L", "A", "C", "E", "A", "B", "L", "E">>

\* titles
FRONT == <<"F", "r", "o", "n", "t">>
LETTER == <<"L", "e", "t", "t", "e", "r">>

Digits == {"0", "1", "2", "3", "4", "5", "6", "7", "8", "9"}

\* d.get(k, default), for a dict held as a function
fget(d, k, default) == IF k \in DOMAIN d THEN d[k] ELSE default

\* ([Pp](age|\.) \d+|[Ff]ront|[Bb]ack) against the whole of t
bad_title_body(t) ==
    \/ t \in {<<"F", "r", "o", "n", "t">>, <<"f", "r", "o", "n", "t">>,
              <<"B", "a", "c", "k">>, <<"b", "a", "c", "k">>}
    \/ \E n \in {2, 4} :
          /\ Len(t) >= n + 2
          /\ t[1] \in {"P", "p"}
          /\ SubSeq(t, 2, n) \in {<<".">>, <<"a", "g", "e">>}
          /\ t[n + 1] = " "
          /\ \A i \in (n + 2)..Len(t) : t[i] \in Digits

\* s with the letters of the placeholder words in lower case
lower(s) ==
    LET low == [c \in {"F", "R", "O", "N", "T", "B", "A", "C", "K", "P", "G", "E"} |->
                   CASE c = "F" -> "f" [] c = "R" -> "r" [] c = "O" -> "o"
                     [] c = "N" -> "n" [] c = "T" -> "t" [] c = "B" -> "b"
                     [] c = "A" -> "a" [] c = "C" -> "c" [] c = "K" -> "k"
                     [] c = "P" -> "p" [] c = "G" -> "g" [] c = "E" -> "e"]
    IN  [i \in 1..Len(s) |-> IF s[i] \in DOMAIN low THEN low[s[i]] ELSE s[i]]

\* a variant that matches in any letter case
input_is_replaceable_ignorecase(title) ==
    \/ bad_title_body(lower(title))
    \/ lower(title) \in {<<>>, <<NL>>}

\* bool(re.compile(r"(^([Pp](age|\.) \d+|[Ff]ront|[Bb]ack)$|^$)").match(title));
\* `$` also matches just before a newline that ends the string
input_is_replaceable(title) ==
    LET t == IF title # <<>> /\ title[Len(title)] = NL
             THEN SubSeq(title, 1, Len(title) - 1) ELSE title
    IN  \/ bad_title_body(title)
        \/ bad_title_body(t)
        \/ title = <<>>
        \/ title = <<NL>>

\* a variant that takes replaceable from the iastate.replaceable field alone
from_anvl_flag_only(ark_dict) ==
    (A_ARK :> fget(ark_dict, K_SUCCESS, <<>>))
    @@ (A_TARGET :> fget(ark_dict, K_TARGET, <<>>))
    @@ (A_DC_TITLE :> fget(ark_dict, K_DC_TITLE, <<>>))
    @@ (A_CREATED :> fget(ark_dict, K_CREATED, 0))
    @@ (A_REPLACEABLE :> (fget(ark_dict, K_REPLACEABLE, <<>>) = TRUE_STR))

\* Ark.from_anvl: a row from the registry's answer to a view
from_anvl(ark_dict) ==
    (A_ARK :> fget(ark_dict, K_SUCCESS, <<>>))
    @@ (A_TARGET :> fget(ark_dict, K_TARGET, <<>>))
    @@ (A_DC_TITLE :> fget(ark_dict, K_DC_TITLE, <<>>))
    @@ (A_CREATED :> fget(ark_dict, K_CREATED, 0))
    @@ (A_REPLACEABLE :>
            (\/ fget(ark_dict, K_REPLACEABLE, <<>>) = TRUE_STR
             \/ input_is_replaceable(fget(ark_dict, K_DC_TITLE, NOT_REPLACEABLE))))

\* Query.first(): no row, or the first row of the scan; a list of 0 or 1 rows
first(rows) == IF rows = <<>> THEN <<>> ELSE <<Head(rows)>>

\* find_ark(ark): the rows whose ark is ark
find_ark(ark) == SelectSeq(db, LAMBDA row : row[A_ARK] = ark)

\* find_replaceable(): the rows whose replaceable is True
find_replaceable == SelectSeq(db, LAMBDA row : row[A_REPLACEABLE] = TRUE)

\* find_url(url): the rows whose target is url. find applies the filter
\* only `if filter is not None`: for a url of None every row is returned
find_url(url) ==
    IF url = NONE THEN db
    ELSE SelectSeq(db, LAMBDA row : row[A_TARGET] = url)

\* a variant that looks the url up among the identifiers
url_is_in_db_by_ark(url) == first(find_ark(url)) # <<>>

\* url_is_in_db(url)
url_is_in_db(url) == first(find_url(url)) # <<>>

\* a variant that keeps the underscores of a key
attr_name_keep_underscores(key) ==
    replace(replace(key, <<"i", "a", "s", "t", "a", "t", "e", ".">>, <<>>),
            <<".">>, <<"_">>)

\* key.replace("iastate.", "").replace("_", "").replace(".", "_")
attr_name(key) ==
    replace(replace(replace(key, <<"i", "a", "s", "t", "a", "t", "e", ".">>, <<>>),
                    <<"_">>, <<>>),
            <<".">>, <<"_">>)

\* the row after setattr(record, attr_name(key), value) for the items of
\* ark_dict, from item n on, in the order of the dict: of two keys that
\* name one attribute the later one stays. An attribute that is no column
\* is not stored
RECURSIVE setattr_from(_, _, _)
setattr_from(row, ark_dict, n) ==
    IF n > Len(ark_dict) THEN row
    ELSE LET key == attr_name(ark_dict[n][1])
         IN  setattr_from(IF key \in Columns
                          THEN [row EXCEPT ![key] = ark_dict[n][2]]
                          ELSE row,
                          ark_dict, n + 1)

\* a variant of set_attrs that blanks the columns no key names
set_attrs_replace(row, ark_dict) ==
    setattr_from((A_ARK :> row[A_ARK]) @@ (A_TARGET :> <<>>)
                    @@ (A_DC_TITLE :> <<>>) @@ (A_REPLACEABLE :> FALSE)
                    @@ (A_CREATED :> 0),
                 ark_dict, 1)

\* update_db_record lines 525-527: the loop over ark_dict.items()
set_attrs(row, ark_dict) == setattr_from(row, ark_dict, 1)

\* update_db_record line 523: record = find_ark(ark, session).first()
select_record(ark) == first(find_ark(ark))

\* update_db_record lines 525-529 for the record loaded: the setattr loop
\* and session.commit(), [err, db]. The UPDATE writes the columns whose
\* value is no longer the loaded one, on the row of the loaded ark as the
\* table then holds it.
commit_record(loaded, ark_dict) ==
    LET new == set_attrs(loaded, ark_dict)
        written == {c \in Columns : new[c] # loaded[c]}
        merged == [i \in 1..Len(db) |->
                      IF db[i][A_ARK] = loaded[A_ARK]
                      THEN [c \in Columns |->
                               IF c \in written THEN new[c] ELSE db[i][c]]
                      ELSE db[i]]
    IN  IF \E i, j \in 1..Len(db) :
                i # j /\ merged[i][A_ARK] = merged[j][A_ARK]
        THEN [err |-> TRUE, db |-> db]
        ELSE [err |-> FALSE, db |-> merged]

\* update_db_record(ark, ark_dict): [err, db]. With no row for ark, the
\* first setattr on None raises AttributeError; an empty ark_dict never
\* reaches it.
\* session.commit() of a row whose new ark is another row's raises
\* IntegrityError, and nothing is written.
update_db_record(ark, ark_dict) ==
    LET record == select_record(ark)
    IN  IF record = <<>> THEN [err |-> ark_dict # <<>>, db |-> db]
        ELSE commit_record(record[1], ark_dict)

\* add_to_db(ark_obj): [err, db]; a row whose ark is taken raises IntegrityError
add_to_db(ark_obj) ==
    IF find_ark(ark_obj[A_ARK]) # <<>>
    THEN [err |-> TRUE, db |-> db]
    ELSE [err |-> FALSE, db |-> Append(db, ark_obj)]

\* a.get(key, default) of a mapping load_anvl_as_dict yields
dict_get(a, key, default) == IF dict_has(a, key) THEN dict_at(a, key) ELSE default

DigitChars == <<"0", "1", "2", "3", "4", "5", "6", "7", "8", "9">>

\* int(text) of a str reads, between whitespace it drops, an optional
\* sign and then digits, with single underscores allowed between digits:
\* what follows the sign
int_digits(text) ==
    LET t == strip(text)
    IN  IF t # <<>> /\ t[1] \in {"+", "-"} THEN Tail(t) ELSE t

\* int(text) raises ValueError
int_raises(text) ==
    LET d == int_digits(text)
    IN  \/ d = <<>>
        \/ \E i \in 1..Len(d) : d[i] \notin Digits \cup {"_"}
        \/ d[1] = "_"
        \/ d[Len(d)] = "_"
        \/ \E i \in 1..(Len(d) - 1) : d[i] = "_" /\ d[i + 1] = "_"

\* the number a text of digits writes
RECURSIVE int_of_digits(_)
int_of_digits(d) ==
    IF d = <<>> THEN 0
    ELSE 10 * int_of_digits(SubSeq(d, 1, Len(d) - 1))
         + (CHOOSE n \in 0..9 : DigitChars[n + 1] = d[Len(d)])

\* int(text) for a text it accepts
int_of(text) ==
    LET n == int_of_digits(SelectSeq(int_digits(text), LAMBDA c : c # "_"))
    IN  IF strip(text)[1] = "-" THEN 0 - n ELSE n

\* load_anvl_file_into_db lines 466-488, Ark(...) for one mapping a:
\* [err, row]. int(a.get("_created", 0)) and int(a.get("_updated", 0))
\* raise ValueError, and a["dc.title"] raises KeyError when the title is
\* asked for and missing; the row keeps the columns of Columns
ark_of_mapping(a) ==
    LET created == dict_get(a, K_CREATED, <<"0">>)
        updated == dict_get(a, K_UPDATED, <<"0">>)
        flagged == dict_get(a, K_REPLACEABLE, NONE) = TRUE_STR
    IN  IF \/ int_raises(created)
           \/ int_raises(updated)
           \/ (~flagged /\ ~dict_has(a, K_DC_TITLE))
        THEN [err |-> TRUE, row |-> <<>>]
        ELSE [err |-> FALSE,
              row |-> (A_ARK :> dict_get(a, ARK_KEY, <<>>))
                      @@ (A_TARGET :> dict_get(a, K_TARGET, <<>>))
                      @@ (A_DC_TITLE :> dict_get(a, K_DC_TITLE, <<>>))
                      @@ (A_CREATED :> int_of(created))
                      @@ (A_REPLACEABLE :>
                             (flagged \/ input_is_replaceable(dict_at(a, K_DC_TITLE))))]

\* load_anvl_file_into_db(batch_file): [err, db]. One row per mapping
\* load_anvl_as_dict yields, each built from the mapping as it stands at
\* its yield, all added to one session and written by the one commit of
\* line 492; an exception before it, or IntegrityError from it for an ark
\* that is taken, leaves the table as it was
load_anvl_file_into_db(text) ==
    LET loaded == load_anvl_as_dict(text)
        arks == [n \in 1..Len(loaded.d) |-> ark_of_mapping(loaded.d[n])]
        rows == db \o [n \in 1..Len(arks) |-> arks[n].row]
    IN  IF loaded.err \/ \E n \in 1..Len(arks) : arks[n].err
        THEN [err |-> TRUE, db |-> db]
        ELSE IF \E i, j \in 1..Len(rows) : i # j /\ rows[i][A_ARK] = rows[j][A_ARK]
        THEN [err |-> TRUE, db |-> db]
        ELSE [err |-> FALSE, db |-> rows]

-----------------------------------------------------------------------------
(* The registry, as src/arkimedes/ezid.py upload_anvl and view_anvl see it. *)

\* the shoulder the registry mints under
SHOULDER == <<"f", "k", "4">>

Shoulders == {SHOULDER}

IdDigits == <<"1", "2", "3", "4", "5", "6">>

\* identifiers the registry hands out, in order
IdNames == [i \in DOMAIN IdDigits |-> SHOULDER \o <<IdDigits[i]>>]

\* an identifier the registry does not hold
UNKNOWN_ARK == SHOULDER \o <<"0">>

\* the registry's answers, r.text
SUCCESS_MARKER == <<"s", "u", "c", "c", "e", "s", "s", ":", " ">>

success_text(id) == SUCCESS_MARKER \o id

error_text == <<"e", "r", "r", "o", "r", ":", " ", "b", "a", "d", " ",
                "r", "e", "q", "u", "e", "s", "t">>

\* the bodies of the answers that refuse a request: the registry's own
\* error line, and the empty body of an error answered by a gateway
ErrorTexts == {error_text, <<>>}

\* upload_anvl line 255: ark = r.text[9:], and line 266: return ark
upload_anvl(text) == SliceFrom(text, 9)

Targets == {<<"t", "1">>, <<"t", "2">>}

Titles == {FRONT, LETTER}

\* the records submitted, each held as its decoded field mapping
Anvls == {(K_TARGET :> t) @@ (K_DC_TITLE :> ti) : t \in Targets, ti \in Titles}

\* a record whose text holds a line with no colon: anvl_to_dict raises on
\* it, so no field of it is ever read
MALFORMED == (<<"n", "o", " ", "c", "o", "l", "o", "n">> :> <<>>)

Batches == UNION {[1..n -> Anvls \cup {MALFORMED}] : n \in 1..MaxBatch}

Procs == {"p1", "p2"}

\* the answer to GET /id/<ark>, decoded
error_answer == (K_ERROR :> SliceFrom(error_text, 7))

view_answer(ark) == (K_SUCCESS :> ark) @@ ezid[ark]

\* the _created the registry stamps on the next identifier it mints
created_now == (K_CREATED :> Cardinality(DOMAIN ezid) + 1)

\* the next identifier the registry would mint
next_id == IdNames[Cardinality(DOMAIN ezid) + 1]

can_mint(shoulder) ==
    shoulder \in Shoulders /\ Cardinality(DOMAIN ezid) < Len(IdNames)

-----------------------------------------------------------------------------
(* The lifecycle, src/arkimedes.py: main, submit_md, upload, add_ark_to_db. *)

IdleProc ==
    [pc |-> "idle", action |-> "none", target |-> <<>>, reuse |-> FALSE,
     queue |-> <<>>, anvl |-> <<>>, url |-> NONE, found |-> FALSE,
     replaceable |-> NONE, upload_action |-> "none", ark |-> <<>>,
     ark_obj |-> <<>>, record |-> <<>>, calls |-> <<>>]

\* submit_md(args): the call without a record, anvl = None
NO_ANVL == <<>>

\* the fields of a record in the order of its lines
FieldOrder == <<K_TARGET, K_DC_TITLE>>

\* anvl_to_dict(anvl).items() for a record of the lifecycle
dict_items(d) ==
    LET keys == SelectSeq(FieldOrder, LAMBDA k : k \in DOMAIN d)
    IN  [n \in 1..Len(keys) |-> <<keys[n], d[keys[n]]>>]

\* the cache rows a run may start from, with the registry holding the same
ROW_REUSABLE ==
    (A_ARK :> IdNames[1]) @@ (A_TARGET :> <<"t", "0">>) @@ (A_DC_TITLE :> FRONT)
    @@ (A_REPLACEABLE :> TRUE) @@ (A_CREATED :> 1)

ROW_PLAIN ==
    (A_ARK :> IdNames[1]) @@ (A_TARGET :> <<"t", "1">>) @@ (A_DC_TITLE :> LETTER)
    @@ (A_REPLACEABLE :> FALSE) @@ (A_CREATED :> 1)

InitialCaches == {<<>>, <<ROW_REUSABLE>>, <<ROW_PLAIN>>}

registry_of(rows) ==
    [id \in {rows[i][A_ARK] : i \in 1..Len(rows)} |->
        LET row == CHOOSE r \in {rows[i] : i \in 1..Len(rows)} : r[A_ARK] = id
        IN  (K_TARGET :> row[A_TARGET]) @@ (K_DC_TITLE :> row[A_DC_TITLE])
            @@ (K_CREATED :> row[A_CREATED])]

LifeIdle ==
    /\ db = <<>>
    /\ ezid = registry_of(<<>>)
    /\ proc = [p \in Procs |-> IdleProc]
    /\ submissions = <<>>
    /\ started = 0
    /\ concurrent = FALSE

LifeInit ==
    /\ db \in InitialCaches
    /\ ezid = registry_of(db)
    /\ proc = [p \in Procs |-> IdleProc]
    /\ submissions = <<>>
    /\ started = 0
    /\ concurrent \in BOOLEAN

\* what is recorded of a submission when it ends
Ended(p, outcome, calls) ==
    [proc |-> p, anvl |-> proc[p].anvl, action |-> proc[p].action,
     reuse |-> proc[p].reuse, found |-> proc[p].found,
     claimed |-> proc[p].replaceable,
     outcome |-> outcome, calls |-> calls]

\* submit_md returns: main goes on to the next record
Return(p, outcome, calls) ==
    /\ submissions' = Append(submissions, Ended(p, outcome, calls))
    /\ proc' = [proc EXCEPT ![p] =
                   [IdleProc EXCEPT !.pc = "submit",
                                    !.action = proc[p].action,
                                    !.target = proc[p].target,
                                    !.reuse = proc[p].reuse,
                                    !.queue = proc[p].queue]]

\* an exception no one catches: the process ends
Raise(p, calls) ==
    /\ submissions' = Append(submissions, Ended(p, "Crash", calls))
    /\ proc' = [proc EXCEPT ![p] = IdleProc]

Goto(p, pc) == proc' = [proc EXCEPT ![p].pc = pc]

\* main: the operator starts a run (arkimedes.py action target --source ...).
\* The queue holds the anvl argument of every call of submit_md to come:
\* the records of main's loop for mint-ead (or of a caller that hands
\* submit_md its record), and NO_ANVL for the one call submit_md(args)
\* that main makes for mint-anvl and for update
StartRun(p) ==
    /\ proc[p].pc = "idle"
    /\ concurrent \/ \A q \in Procs : proc[q].pc = "idle"
    /\ \E action \in {"mint", "update"}, reuse \in BOOLEAN,
          batch \in Batches \cup {<<NO_ANVL>>} :
          /\ started + Len(batch) <= MaxSubmissions
          /\ action = "update" => (Len(batch) = 1 /\ ~reuse)
          /\ \E target \in (IF action = "mint" THEN Shoulders
                            ELSE DOMAIN ezid \cup {UNKNOWN_ARK}) :
                proc' = [proc EXCEPT ![p] =
                            [IdleProc EXCEPT !.pc = "submit",
                                             !.action = action,
                                             !.target = target,
                                             !.reuse = reuse,
                                             !.queue = batch]]
          /\ started' = started + Len(batch)
    /\ UNCHANGED <<db, ezid, submissions, concurrent>>
    /\ UNCHANGED <<codecVars, pollVars, cacheVars, queryVars, tsvVars, runVars>>

\* main: no record is left, the run ends
EndRun(p) ==
    /\ proc[p].pc = "submit"
    /\ proc[p].queue = <<>>
    /\ proc' = [proc EXCEPT ![p] = IdleProc]
    /\ UNCHANGED <<db, ezid, submissions, started, concurrent>>
    /\ UNCHANGED <<codecVars, pollVars, cacheVars, queryVars, tsvVars, runVars>>

\* a variant that always takes the candidate as found
after_lookup_always_update(candidate) == "update"

\* the upload action after the reusable lookup (lines 87-94)
after_lookup(candidate) == IF candidate # <<>> THEN "update" ELSE "mint"

\* a variant that skips the duplicate branch
after_dedup_never_found(found, reuse) ==
    IF reuse THEN "find_replaceable" ELSE "upload"

\* a variant whose duplicate branch goes on to the upload
after_dedup_found_uploads(found, reuse) ==
    IF reuse /\ ~found THEN "find_replaceable" ELSE "upload"

\* the step after the dedup check (lines 81-96)
after_dedup(found, reuse) ==
    IF found THEN "dup_find"
    ELSE IF reuse THEN "find_replaceable"
    ELSE "upload"

\* a variant that sends a refused request again
after_post_retry(action, accepted) ==
    IF ~accepted THEN "upload"
    ELSE IF action = "mint" THEN "view_new" ELSE "merge"

\* the step after upload_anvl returned (lines 104-108)
after_post(action, accepted) == IF action = "mint" THEN "view_new" ELSE "merge"

\* line 76: `if args.action == "update"` goes straight to upload
entry_step(action) == IF action = "update" THEN "upload" ELSE "dedup"

\* submit_md lines 72-79: the entry, up to the dedup query
BeginSubmit(p) ==
    /\ proc[p].pc = "submit"
    /\ proc[p].queue # <<>>
    /\ LET a == Head(proc[p].queue)
       IN  IF a = NO_ANVL
           THEN \* lines 73-74 and return_anvl (56-69): args.source is the
                \* list argparse made of --source (or None), so
                \* open(args.source) raises TypeError (or return_anvl
                \* raises MissingArgumentError) before any request
                /\ submissions' = Append(submissions, Ended(p, "Crash", <<>>))
                /\ proc' = [proc EXCEPT ![p] = IdleProc]
           ELSE IF proc[p].action # "update" /\ a = MALFORMED
           THEN \* line 79: get_value_from_anvl_string raises
                /\ submissions' = Append(submissions,
                                      [Ended(p, "Crash", <<>>) EXCEPT !.anvl = a])
                /\ proc' = [proc EXCEPT ![p] = IdleProc]
           ELSE /\ proc' = [proc EXCEPT ![p] =
                     [@ EXCEPT !.queue = Tail(proc[p].queue),
                               !.anvl = a,
                               !.url = IF proc[p].action = "update" THEN NONE
                                       ELSE fget(a, K_TARGET, NONE),
                               !.upload_action =
                                   IF proc[p].action = "update" THEN "update"
                                   ELSE "mint",
                               !.pc = entry_step(proc[p].action)]]
                /\ UNCHANGED submissions
    /\ UNCHANGED <<db, ezid, started, concurrent>>
    /\ UNCHANGED <<codecVars, pollVars, cacheVars, queryVars, tsvVars, runVars>>

\* line 81: if url_is_in_db(url)
DedupCheck(p) ==
    /\ proc[p].pc = "dedup"
    /\ LET found == url_is_in_db(proc[p].url)
       IN  proc' = [proc EXCEPT ![p].found = found,
                                ![p].pc = after_dedup(found, proc[p].reuse)]
    /\ UNCHANGED <<db, ezid, submissions, started, concurrent>>
    /\ UNCHANGED <<codecVars, pollVars, cacheVars, queryVars, tsvVars, runVars>>

\* lines 82-84: ark_obj = find_url(url).first(), then ark_obj.ark
DupFind(p) ==
    /\ proc[p].pc = "dup_find"
    /\ LET ark_obj == first(find_url(proc[p].url))
       IN  IF ark_obj = <<>>
           THEN Raise(p, proc[p].calls)
           ELSE /\ proc' = [proc EXCEPT ![p].ark_obj = ark_obj,
                                        ![p].pc = "dup_view"]
                /\ UNCHANGED submissions
    /\ UNCHANGED <<db, ezid, started, concurrent>>
    /\ UNCHANGED <<codecVars, pollVars, cacheVars, queryVars, tsvVars, runVars>>

\* line 84: view_anvl(..., ark_obj.ark); the submission ends
DupView(p) ==
    /\ proc[p].pc = "dup_view"
    /\ \E res \in {"ok", "rejected", "netfail"} :
          LET calls == Append(proc[p].calls,
                           [kind |-> "view", to |-> proc[p].ark_obj[1][A_ARK],
                            res |-> res])
          IN  IF res = "netfail"
              THEN Raise(p, calls)
              ELSE Return(p, "DuplicateTarget", calls)
    /\ UNCHANGED <<db, ezid, started, concurrent>>
    /\ UNCHANGED <<codecVars, pollVars, cacheVars, queryVars, tsvVars, runVars>>

\* lines 87-90: replaceable = find_replaceable().first(); args.target = ...
FindReplaceable(p) ==
    /\ proc[p].pc = "find_replaceable"
    /\ LET candidate == first(find_replaceable)
       IN  proc' = [proc EXCEPT
                ![p].replaceable =
                    IF candidate # <<>> THEN candidate[1][A_ARK] ELSE NONE,
                ![p].target =
                    IF candidate # <<>> THEN candidate[1][A_ARK] ELSE proc[p].target,
                ![p].upload_action = after_lookup(candidate),
                ![p].pc = "upload"]
    /\ UNCHANGED <<db, ezid, submissions, started, concurrent>>
    /\ UNCHANGED <<codecVars, pollVars, cacheVars, queryVars, tsvVars, runVars>>

\* upload line 100, upload_anvl lines 245-266: the POST and ark = r.text[9:]
UploadPost(p) ==
    /\ proc[p].pc = "upload"
    /\ LET action == proc[p].upload_action
           target == proc[p].target
           valid  == IF action = "mint" THEN can_mint(target)
                     ELSE target \in DOMAIN ezid
       IN  \E res \in {"ok", "rejected", "netfail"} :
              /\ res = "ok" => valid
              /\ LET calls == Append(proc[p].calls,
                                  [kind |-> action, to |-> target, res |-> res])
                     id    == IF action = "mint" THEN next_id ELSE target
                 IN  CASE res = "netfail" ->
                            /\ Raise(p, calls)
                            /\ UNCHANGED ezid
                       [] res = "rejected" ->
                            /\ \E text \in ErrorTexts :
                                  proc' = [proc EXCEPT
                                      ![p].calls = calls,
                                      ![p].ark = upload_anvl(text),
                                      ![p].pc = after_post(action, FALSE)]
                            /\ UNCHANGED <<ezid, submissions>>
                       [] res = "ok" ->
                            /\ proc' = [proc EXCEPT
                                   ![p].calls = calls,
                                   ![p].ark = upload_anvl(success_text(id)),
                                   ![p].pc = after_post(action, TRUE)]
                            /\ ezid' = IF action = "mint"
                                       THEN ezid @@ (id :> (proc[p].anvl @@ created_now))
                                       ELSE [ezid EXCEPT ![id] = proc[p].anvl @@ @]
                            /\ UNCHANGED submissions
    /\ UNCHANGED <<db, started, concurrent>>
    /\ UNCHANGED <<codecVars, pollVars, cacheVars, queryVars, tsvVars, runVars>>

\* add_ark_to_db lines 51-53: view_anvl(..., ark, False) and Ark.from_anvl
ViewNew(p) ==
    /\ proc[p].pc = "view_new"
    /\ LET ark == proc[p].ark
       IN  \E res \in {"ok", "rejected", "netfail"} :
              /\ res = "ok" => ark \in DOMAIN ezid
              /\ LET calls == Append(proc[p].calls,
                                  [kind |-> "view", to |-> ark, res |-> res])
                 IN  IF res = "netfail"
                     THEN Raise(p, calls)
                     ELSE /\ proc' = [proc EXCEPT
                                 ![p].calls = calls,
                                 ![p].ark_obj =
                                     <<from_anvl(IF res = "ok" THEN view_answer(ark)
                                                 ELSE error_answer)>>,
                                 ![p].pc = "insert"]
                          /\ UNCHANGED submissions
    /\ UNCHANGED <<db, ezid, started, concurrent>>
    /\ UNCHANGED <<codecVars, pollVars, cacheVars, queryVars, tsvVars, runVars>>

\* add_ark_to_db line 54: add_to_db(ark_obj); upload and submit_md return
Insert(p) ==
    /\ proc[p].pc = "insert"
    /\ LET added == add_to_db(proc[p].ark_obj[1])
       IN  IF added.err
           THEN Raise(p, proc[p].calls) /\ UNCHANGED db
           ELSE Return(p, "Mint", proc[p].calls) /\ db' = added.db
    /\ UNCHANGED <<ezid, started, concurrent>>
    /\ UNCHANGED <<codecVars, pollVars, cacheVars, queryVars, tsvVars, runVars>>

\* upload lines 107-108: update_db_record(ark, anvl_to_dict(anvl)), up to
\* its commit: anvl_to_dict, the SELECT of db.py line 523 and the setattr
\* loop, which raises when no row was found
Merge(p) ==
    /\ proc[p].pc = "merge"
    /\ LET record == select_record(proc[p].ark)
       IN  IF proc[p].anvl = MALFORMED
              \/ (record = <<>> /\ dict_items(proc[p].anvl) # <<>>)
           THEN Raise(p, proc[p].calls)
           ELSE /\ proc' = [proc EXCEPT ![p].record = record,
                                        ![p].pc = "merge_commit"]
                /\ UNCHANGED submissions
    /\ UNCHANGED <<db, ezid, started, concurrent>>
    /\ UNCHANGED <<codecVars, pollVars, cacheVars, queryVars, tsvVars, runVars>>

\* db.py line 529 for the call of upload: session.commit()
MergeCommit(p) ==
    /\ proc[p].pc = "merge_commit"
    /\ LET merged == IF proc[p].record = <<>> THEN [err |-> FALSE, db |-> db]
                     ELSE commit_record(proc[p].record[1],
                                        dict_items(proc[p].anvl))
       IN  IF merged.err
           THEN Raise(p, proc[p].calls) /\ UNCHANGED db
           ELSE /\ db' = merged.db
                /\ IF proc[p].replaceable # NONE
                   THEN Goto(p, "clear") /\ UNCHANGED submissions
                   ELSE Return(p, "Update", proc[p].calls)
    /\ UNCHANGED <<ezid, started, concurrent>>
    /\ UNCHANGED <<codecVars, pollVars, cacheVars, queryVars, tsvVars, runVars>>

\* line 92: update_db_record(replaceable.ark, {"iastate.replaceable": False}),
\* up to its commit: the SELECT and the setattr
ClearFlag(p) ==
    /\ proc[p].pc = "clear"
    /\ LET record == select_record(proc[p].replaceable)
       IN  IF record = <<>>
           THEN Raise(p, proc[p].calls)
           ELSE /\ proc' = [proc EXCEPT ![p].record = record,
                                        ![p].pc = "clear_commit"]
                /\ UNCHANGED submissions
    /\ UNCHANGED <<db, ezid, started, concurrent>>
    /\ UNCHANGED <<codecVars, pollVars, cacheVars, queryVars, tsvVars, runVars>>

\* db.py line 529 for the call of line 92: session.commit()
ClearCommit(p) ==
    /\ proc[p].pc = "clear_commit"
    /\ LET cleared == commit_record(proc[p].record[1],
                                    << <<K_REPLACEABLE, FALSE>> >>)
       IN  IF cleared.err
           THEN Raise(p, proc[p].calls) /\ UNCHANGED db
           ELSE Return(p, "Reuse", proc[p].calls) /\ db' = cleared.db
    /\ UNCHANGED <<ezid, started, concurrent>>
    /\ UNCHANGED <<codecVars, pollVars, cacheVars, queryVars, tsvVars, runVars>>

Next ==
    \E p \in Procs :
        \/ StartRun(p)
        \/ EndRun(p)
        \/ BeginSubmit(p)
        \/ DedupCheck(p)
        \/ DupFind(p)
        \/ DupView(p)
        \/ FindReplaceable(p)
        \/ UploadPost(p)
        \/ ViewNew(p)
        \/ Insert(p)
        \/ Merge(p)
        \/ MergeCommit(p)
        \/ ClearFlag(p)
        \/ ClearCommit(p)

-----------------------------------------------------------------------------
(* SpecCache: single calls of the cache functions of src/arkimedes/db.py.  *)

\* the identifiers of the rows a cache is drawn from
CacheIds == {IdNames[i] : i \in 1..MaxCacheRows}

\* the _created stamps of those rows
CreatedStamps == {1, 2}

\* rows of the arks table
CacheRows ==
    {(A_ARK :> id) @@ (A_TARGET :> t) @@ (A_DC_TITLE :> ti)
        @@ (A_REPLACEABLE :> rp) @@ (A_CREATED :> cr) :
        id \in CacheIds, t \in Targets, ti \in Titles, rp \in BOOLEAN,
        cr \in CreatedStamps}

\* the arks table in rowid order: ark is its primary key, and rows loaded
\* from a batch file are inserted in file order, whatever their _created
Caches ==
    {c \in UNION {[1..n -> CacheRows] : n \in 0..MaxCacheRows} :
        \A i, j \in 1..Len(c) : i # j => c[i][A_ARK] # c[j][A_ARK]}

\* the ark_dict arguments of update_db_record, each the sequence of its
\* items; <<>> is the empty dict. In the last two, two keys name one
\* attribute
UpdateDicts ==
    {<<>>,
     << <<K_TARGET, <<"t", "2">> >> >>,
     << <<K_DC_TITLE, LETTER>> >>,
     << <<K_REPLACEABLE, FALSE>> >>,
     << <<K_TARGET, <<"t", "2">> >>, <<K_DC_TITLE, FRONT>> >>,
     << <<K_SUCCESS, IdNames[1]>> >>,
     << <<ARK_KEY, IdNames[2]>> >>,
     << <<ARK_KEY, IdNames[2]>>, <<K_TARGET, <<"t", "1">> >> >>,
     << <<A_TARGET, <<"t", "2">> >>, <<K_TARGET, <<"t", "1">> >> >>,
     << <<K_TARGET, <<"t", "1">> >>, <<A_TARGET, <<"t", "2">> >> >>}

\* the title arguments of input_is_replaceable
TitleInputs ==
    {<<>>, <<NL>>, <<" ">>,
     <<"F", "r", "o", "n", "t">>, <<"f", "r", "o", "n", "t">>,
     <<"F", "R", "O", "N", "T">>, <<"f", "R", "O", "N", "T">>,
     <<"F", "r", "o", "n", "t", NL>>, <<"F", "r", "o", "n", "t", NL, NL>>,
     <<"F", "r", "o", "n", "t", " ">>, <<" ", "F", "r", "o", "n", "t">>,
     <<"F", "r", "o", "n", "t", " ", "c", "o", "v", "e", "r">>,
     <<"B", "a", "c", "k">>, <<"b", "a", "c", "k">>, <<"B", "A", "C", "K">>,
     <<"B", "a", "c", "k", "s">>,
     <<"P", "a", "g", "e">>, <<"P", "a", "g", "e", " ">>,
     <<"P", "a", "g", "e", " ", "3">>, <<"p", "a", "g", "e", " ", "3">>,
     <<"P", "A", "G", "E", " ", "3">>, <<"P", "a", "g", "e", " ", "1", "2">>,
     <<"P", "a", "g", "e", " ", "3", "a">>, <<"P", "a", "g", "e", "3">>,
     <<"P", "a", "g", "e", " ", " ", "3">>, <<"P", "a", "g", "e", " ", "3", NL>>,
     <<"p", ".", " ", "7">>, <<"P", ".", " ", "7">>, <<"p", ".", " ", "4", "0">>,
     <<"p", ".", "7">>, <<"p", " ", "7">>, <<"p", ".", " ">>,
     <<"L", "e", "t", "t", "e", "r">>}

\* the columns of the arks table (class Ark, lines 138-155)
ArkColumns ==
    {<<"a", "r", "k">>,
     <<"t", "a", "r", "g", "e", "t">>,
     <<"p", "r", "o", "f", "i", "l", "e">>,
     <<"s", "t", "a", "t", "u", "s">>,
     <<"o", "w", "n", "e", "r">>,
     <<"o", "w", "n", "e", "r", "g", "r", "o", "u", "p">>,
     <<"c", "r", "e", "a", "t", "e", "d">>,
     <<"u", "p", "d", "a", "t", "e", "d">>,
     <<"e", "x", "p", "o", "r", "t">>,
     <<"d", "c", "_", "c", "r", "e", "a", "t", "o", "r">>,
     <<"d", "c", "_", "t", "i", "t", "l", "e">>,
     <<"d", "c", "_", "t", "y", "p", "e">>,
     <<"d", "c", "_", "d", "a", "t", "e">>,
     <<"d", "c", "_", "p", "u", "b", "l", "i", "s", "h", "e", "r">>,
     <<"e", "r", "c", "_", "w", "h", "e", "n">>,
     <<"e", "r", "c", "_", "w", "h", "a", "t">>,
     <<"e", "r", "c", "_", "w", "h", "o">>,
     <<"r", "e", "p", "l", "a", "c", "e", "a", "b", "l", "e">>}

\* Ark.from_anvl lines 182-203: <<attribute, the field it is read from>>
FromAnvlFields ==
    <<<<<<"t", "a", "r", "g", "e", "t">>,
       <<"_", "t", "a", "r", "g", "e", "t">>>>,
      <<<<"p", "r", "o", "f", "i", "l", "e">>,
       <<"_", "p", "r", "o", "f", "i", "l", "e">>>>,
      <<<<"s", "t", "a", "t", "u", "s">>,
       <<"_", "s", "t", "a", "t", "u", "s">>>>,
      <<<<"o", "w", "n", "e", "r">>,
       <<"_", "o", "w", "n", "e", "r">>>>,
      <<<<"o", "w", "n", "e", "r", "g", "r", "o", "u", "p">>,
       <<"_", "o", "w", "n", "e", "r", "g", "r", "o", "u", "p">>>>,
      <<<<"c", "r", "e", "a", "t", "e", "d">>,
       <<"_", "c", "r", "e", "a", "t", "e", "d">>>>,
      <<<<"u", "p", "d", "a", "t", "e", "d">>,
       <<"_", "u", "p", "d", "a", "t", "e", "d">>>>,
      <<<<"e", "x", "p", "o", "r", "t">>,
       <<"_", "e", "x", "p", "o", "r", "t">>>>,
      <<<<"d", "c", "_", "c", "r", "e", "a", "t", "o", "r">>,
       <<"d", "c", ".", "c", "r", "e", "a", "t", "o", "r">>>>,
      <<<<"d", "c", "_", "t", "i", "t", "l", "e">>,
       <<"d", "c", ".", "t", "i", "t", "l", "e">>>>,
      <<<<"d", "c", "_", "t", "y", "p", "e">>,
       <<"d", "c", ".", "t", "y", "p", "e">>>>,
      <<<<"d", "c", "_", "d", "a", "t", "e">>,
       <<"d", "c", ".", "d", "a", "t", "e">>>>,
      <<<<"d", "c", "_", "p", "u", "b", "l", "i", "s", "h", "e", "r">>,
       <<"d", "c", ".", "p", "u", "b", "l", "i", "s", "h", "e", "r">>>>,
      <<<<"e", "r", "c", "_", "w", "h", "e", "n">>,
       <<"e", "r", "c", ".", "w", "h", "e", "n">>>>,
      <<<<"e", "r", "c", "_", "w", "h", "a", "t">>,
       <<"e", "r", "c", ".", "w", "h", "a", "t">>>>,
      <<<<"e", "r", "c", "_", "w", "h", "o">>,
       <<"e", "r", "c", ".", "w", "h", "o">>>>,
      <<<<"r", "e", "p", "l", "a", "c", "e", "a", "b", "l", "e">>,
       <<"i", "a", "s", "t", "a", "t", "e", ".", "r", "e", "p", "l", "a", "c", "e", "a", "b", "l", "e">>>>>>

\* the registry's field names, as from_anvl reads them
WireFields == {FromAnvlFields[i][2] : i \in 1..Len(FromAnvlFields)}

\* the attribute from_anvl populates from field
from_anvl_attr(field) ==
    FromAnvlFields[CHOOSE i \in 1..Len(FromAnvlFields) :
                       FromAnvlFields[i][2] = field][1]

\* the one-item ark_dict arguments whose key is a registry field name
FieldDicts == {<< <<f, v>> >> : f \in WireFields, v \in {<<>>, FRONT, LETTER}}

\* a record of a batch file: the identifier line and the fields
file_record(id, fields) ==
    join(<<NL>>, <<(<<COLON, COLON, SP>> \o id)>> \o
                 [n \in 1..Len(fields) |->
                     fields[n][1] \o <<COLON, SP>> \o fields[n][2]])

\* the records of the batch files: complete ones, one without a title, one
\* flagged reusable without a title, one whose _created is no number, one
\* whose _updated is no number, one whose _created has a sign and an
\* underscore
FileRecords ==
    {file_record(IdNames[1], << <<K_TARGET, <<"t", "1">> >>, <<K_DC_TITLE, LETTER>>,
                                <<K_CREATED, <<"1">> >> >>),
     file_record(IdNames[2], << <<K_TARGET, <<"t", "2">> >>, <<K_DC_TITLE, FRONT>>,
                                <<K_CREATED, <<"2">> >> >>),
     file_record(IdNames[2], << <<K_TARGET, <<"t", "2">> >> >>),
     file_record(IdNames[2], << <<K_REPLACEABLE, TRUE_STR>> >>),
     file_record(IdNames[2], << <<K_DC_TITLE, LETTER>>, <<K_CREATED, LETTER>> >>),
     file_record(IdNames[2], << <<K_TARGET, <<"t", "2">> >>, <<K_DC_TITLE, LETTER>>,
                                <<K_CREATED, <<"2">> >>, <<K_UPDATED, <<"x">> >> >>),
     file_record(IdNames[3], << <<K_DC_TITLE, LETTER>>,
                                <<K_CREATED, <<"-", "1", "_", "0">> >> >>)}

\* the batch files: one or two records, each followed by a blank line
BatchFiles ==
    {join(<<NL, NL>>, rs) \o <<NL, NL>> :
        rs \in UNION {[1..n -> FileRecords] : n \in 1..MaxCacheRows}}

\* the fields of lifeVars that the cache functions do not touch, at rest
CacheRest ==
    /\ ezid = registry_of(<<>>)
    /\ proc = [p \in Procs |-> IdleProc]
    /\ submissions = <<>>
    /\ started = 0
    /\ concurrent = FALSE

\* no cache function is being called
CacheIdle ==
    /\ cache_pc = "none"
    /\ cache0 = <<>>
    /\ q_ark = <<>>
    /\ q_dict = <<>>
    /\ q_url = <<>>
    /\ q_title = <<>>
    /\ q_file = <<>>
    /\ q_ret = <<>>

CacheInit ==
    /\ CacheRest
    /\ q_ret = <<>>
    /\ \/ /\ cache_pc = "update_db_record"
          /\ db \in Caches
          /\ q_ark \in CacheIds \cup {UNKNOWN_ARK}
          /\ q_dict \in UpdateDicts
          /\ q_url = <<>>
          /\ q_title = <<>>
          /\ q_file = <<>>
       \/ /\ cache_pc = "find_replaceable"
          /\ db \in Caches
          /\ q_ark = <<>>
          /\ q_dict = <<>>
          /\ q_url = <<>>
          /\ q_title = <<>>
          /\ q_file = <<>>
       \/ /\ cache_pc = "find_url"
          /\ db \in Caches
          /\ q_ark = <<>>
          /\ q_dict = <<>>
          /\ q_url \in Targets \cup {NONE}
          /\ q_title = <<>>
          /\ q_file = <<>>
       \/ /\ cache_pc = "input_is_replaceable"
          /\ db = <<>>
          /\ q_ark = <<>>
          /\ q_dict = <<>>
          /\ q_url = <<>>
          /\ q_title \in TitleInputs
          /\ q_file = <<>>
       \/ /\ cache_pc = "setattr"
          /\ db = <<>>
          /\ q_ark = <<>>
          /\ q_dict \in FieldDicts
          /\ q_url = <<>>
          /\ q_title = <<>>
          /\ q_file = <<>>
       \/ /\ cache_pc = "load_anvl_file_into_db"
          /\ db \in {<<>>, <<ROW_PLAIN>>}
          /\ q_ark = <<>>
          /\ q_dict = <<>>
          /\ q_url = <<>>
          /\ q_title = <<>>
          /\ q_file \in BatchFiles
    /\ cache0 = db

\* update_db_record(q_ark, q_dict)
UpdateDbRecord ==
    /\ cache_pc = "update_db_record"
    /\ LET r == update_db_record(q_ark, q_dict)
       IN  /\ db' = r.db
           /\ q_ret' = [err |-> r.err]
    /\ cache_pc' = "updated"
    /\ UNCHANGED <<cache0, q_ark, q_dict, q_url, q_title, q_file>>
    /\ UNCHANGED <<ezid, proc, submissions, started, concurrent>>
    /\ UNCHANGED <<codecVars, pollVars, queryVars, tsvVars, runVars>>

\* find_replaceable().first()
FindReplaceableFirst ==
    /\ cache_pc = "find_replaceable"
    /\ q_ret' = first(find_replaceable)
    /\ cache_pc' = "found_replaceable"
    /\ UNCHANGED <<cache0, q_ark, q_dict, q_url, q_title, q_file>>
    /\ UNCHANGED lifeVars
    /\ UNCHANGED <<codecVars, pollVars, queryVars, tsvVars, runVars>>

\* find_url(q_url).first()
FindUrlFirst ==
    /\ cache_pc = "find_url"
    /\ q_ret' = first(find_url(q_url))
    /\ cache_pc' = "found_url"
    /\ UNCHANGED <<cache0, q_ark, q_dict, q_url, q_title, q_file>>
    /\ UNCHANGED lifeVars
    /\ UNCHANGED <<codecVars, pollVars, queryVars, tsvVars, runVars>>

\* input_is_replaceable(q_title)
InputIsReplaceable ==
    /\ cache_pc = "input_is_replaceable"
    /\ q_ret' = input_is_replaceable(q_title)
    /\ cache_pc' = "matched"
    /\ UNCHANGED <<cache0, q_ark, q_dict, q_url, q_title, q_file>>
    /\ UNCHANGED lifeVars
    /\ UNCHANGED <<codecVars, pollVars, queryVars, tsvVars, runVars>>

\* update_db_record lines 526-527, the loop body alone: the attributes
\* setattr is called with for the items of q_dict
SetAttr ==
    /\ cache_pc = "setattr"
    /\ q_ret' = {attr_name(key) : key \in dict_keys(q_dict)}
    /\ cache_pc' = "attr_set"
    /\ UNCHANGED <<cache0, q_ark, q_dict, q_url, q_title, q_file>>
    /\ UNCHANGED lifeVars
    /\ UNCHANGED <<codecVars, pollVars, queryVars, tsvVars, runVars>>

\* load_anvl_file_into_db(q_file)
LoadAnvlFileIntoDb ==
    /\ cache_pc = "load_anvl_file_into_db"
    /\ LET r == load_anvl_file_into_db(q_file)
       IN  /\ db' = r.db
           /\ q_ret' = [err |-> r.err]
    /\ cache_pc' = "loaded"
    /\ UNCHANGED <<cache0, q_ark, q_dict, q_url, q_title, q_file>>
    /\ UNCHANGED <<ezid, proc, submissions, started, concurrent>>
    /\ UNCHANGED <<codecVars, pollVars, queryVars, tsvVars, runVars>>

CacheNext ==
    \/ UpdateDbRecord
    \/ FindReplaceableFirst
    \/ FindUrlFirst
    \/ InputIsReplaceable
    \/ SetAttr
    \/ LoadAnvlFileIntoDb

-----------------------------------------------------------------------------
(* query, src/src/arkimedes/ezid.py 374-590.                               *)

\* the lists query accumulates, in the order zip_longest takes them
ColumnLists ==
    <<"creators", "titles", "identifiers", "owners", "create_times",
      "update_times", "id_statuses">>

\* the keys of a row, in the order zip pairs them with the lists
RowKeys ==
    <<"creator", "title", "ark", "owner", "created", "updated", "id_status">>

ColumnTags == <<"c", "t", "i", "o", "n", "u", "s">>

PageDigits == <<"1", "2", "3", "4">>

\* the text of the n-th cell of column i on page k
cell(i, k, n) == <<ColumnTags[i], PageDigits[k], PageDigits[n]>>

\* what tree.xpath(<column>_xpath) returns for page k: a td with no text
\* gives no text node, so a column may come back shorter than the others
column_cells(i, k, count) == [n \in 1..count |-> cell(i, k, n)]

\* page k of a search: the max attribute of its page selector (NONE when
\* the page has none) and the cells of its columns
page_of(k, max, creators, titles, rows) ==
    [max |-> max,
     cells |-> [i \in 1..Len(ColumnLists) |->
                   column_cells(i, k, IF i = 1 THEN creators
                                      ELSE IF i = 2 THEN titles
                                      ELSE rows)]]

\* the searches: one to MaxPages pages, every page reporting the number of
\* pages or none reporting it
Sites ==
    UNION {
        {[k \in 1..n |-> page_of(k, max, cs[k], ts[k], rs[k])] :
            max \in {NONE, <<PageDigits[n]>>},
            cs \in [1..n -> 0..MaxCells],
            ts \in [1..n -> 0..MaxCells],
            rs \in [1..n -> 1..MaxCells]} : n \in 1..MaxPages}

NoPage == [max |-> NONE, cells |-> [i \in 1..Len(ColumnLists) |-> <<>>]]

\* the answer to s.get(url, params=query) with query["p"] = p
get_page(p) == IF p \in 1..Len(site) THEN site[p] ELSE NoPage

\* the text() children of an attribute node: an attribute has none
attr_text(value) == <<>>

\* string(node-set): the string value of its first node, "" when empty
xpath_string(nodes) == IF nodes = <<>> THEN <<>> ELSE nodes[1]

\* lines 538-540:
\* tree.xpath("string(//input[@id='page-directselect-bottom']/@max/text())")
page_count_text(page) ==
    xpath_string(IF page.max = NONE THEN <<>> ELSE attr_text(page.max))

\* int(result_pages), for the page counts of one digit
int(text) == CHOOSE n \in 1..Len(PageDigits) : PageDigits[n] = text[1]

\* lines 542-548: each list is extended by the page's cells
extended(cols, page) == [i \in 1..Len(ColumnLists) |-> cols[i] \o page.cells[i]]

\* lines 558-561: while p <= max_pages: query["p"] = p; get_all_results()
RECURSIVE while_pages(_, _, _)
while_pages(p, max_pages, acc) ==
    IF p > max_pages THEN acc
    ELSE while_pages(p + 1, max_pages,
                     [gets |-> Append(acc.gets, p),
                      cols |-> extended(acc.cols, get_page(p))])

\* a variant that stops at the shortest list, as zip does
RECURSIVE zip_shortest(_)
zip_shortest(lists) ==
    IF \E i \in DOMAIN lists : lists[i] = <<>> THEN <<>>
    ELSE <<[i \in DOMAIN lists |-> Head(lists[i])]>>
         \o zip_shortest([i \in DOMAIN lists |-> Tail(lists[i])])

\* zip_longest(*lists, fillvalue=""): rows until every list is exhausted
RECURSIVE zip_longest(_)
zip_longest(lists) ==
    IF \A i \in DOMAIN lists : lists[i] = <<>> THEN <<>>
    ELSE <<[i \in DOMAIN lists |->
               IF lists[i] = <<>> THEN <<>> ELSE Head(lists[i])]>>
         \o zip_longest([i \in DOMAIN lists |->
                            IF lists[i] = <<>> THEN <<>> ELSE Tail(lists[i])])

\* dict(zip(("creator", "title", "ark", ...), row))
row_dict(row) ==
    [k \in {RowKeys[i] : i \in 1..Len(RowKeys)} |->
        row[CHOOSE i \in 1..Len(RowKeys) : RowKeys[i] = k]]

NoColumns == [i \in 1..Len(ColumnLists) |-> <<>>]

\* query at rest, for the specifications that do not run it
QueryIdle ==
    /\ qry_pc = "none"
    /\ site = <<>>
    /\ page_gets = <<>>
    /\ columns = NoColumns
    /\ result_pages = <<>>
    /\ results = <<>>

QueryInit ==
    /\ qry_pc = "get"
    /\ site \in Sites
    /\ page_gets = <<>>
    /\ columns = NoColumns
    /\ result_pages = <<>>
    /\ results = <<>>

\* line 552: result_pages = get_all_results(), with query["p"] = 1
QueryFirstGet ==
    /\ qry_pc = "get"
    /\ page_gets' = Append(page_gets, 1)
    /\ columns' = extended(columns, get_page(1))
    /\ result_pages' = page_count_text(get_page(1))
    /\ qry_pc' = "pages"
    /\ UNCHANGED <<site, results>>
    /\ UNCHANGED <<codecVars, pollVars, lifeVars, cacheVars, tsvVars,
                   runVars>>

\* lines 554-561: the further pages, when result_pages is not empty
QueryFurtherPages ==
    /\ qry_pc = "pages"
    /\ LET all == IF result_pages # <<>>
                  THEN while_pages(2, int(result_pages),
                                   [gets |-> page_gets, cols |-> columns])
                  ELSE [gets |-> page_gets, cols |-> columns]
       IN  /\ page_gets' = all.gets
           /\ columns' = all.cols
    /\ qry_pc' = "zip"
    /\ UNCHANGED <<site, result_pages, results>>
    /\ UNCHANGED <<codecVars, pollVars, lifeVars, cacheVars, tsvVars,
                   runVars>>

\* lines 563-590: the rows, from zip_longest over the seven lists
QueryZip ==
    /\ qry_pc = "zip"
    /\ results' = [n \in 1..Len(zip_longest(columns)) |->
                      row_dict(zip_longest(columns)[n])]
    /\ qry_pc' = "done"
    /\ UNCHANGED <<site, page_gets, columns, result_pages>>
    /\ UNCHANGED <<codecVars, pollVars, lifeVars, cacheVars, tsvVars,
                   runVars>>

QueryNext == QueryFirstGet \/ QueryFurtherPages \/ QueryZip

-----------------------------------------------------------------------------
(* The delimited-file loaders of src/src/arkimedes/ezid.py:                *)
(* load_anvl_as_dict_from_tsv sniffs the dialect from the first            *)
(* SNIFF_SAMPLE characters and reads the file with csv.DictReader;         *)
(* load_anvl_as_str_from_tsv passes each of its rows to build_anvl.        *)
(* A DictReader row is a codec dict: the sequence of its items.            *)

\* most data rows of a file
MaxTsvRows == 2
\* the length of the wide cell that takes a file past the sniffed sample
WideLen == 600

\* fh.read(1024): the characters handed to the sniffer
SNIFF_SAMPLE == 1024

\* csv.Sniffer.preferred
PREFERRED == <<",", "\t", ";", " ", ":">>

\* the characters of the model in code-point order
AsciiOrder ==
    <<"\t", " ", ",", ".", "0", "1", "2", "3", "4", "5", "6", "7",
      "8", "9", ":", ";", "_", "a", "b", "c", "d", "e", "f", "g",
      "h", "i", "j", "k", "l", "m", "n", "o", "p", "q", "r", "s",
      "t", "u", "v", "w", "x", "y", "z">>

\* the rank of c among the characters modelled: ordered as ord(c) is
ord(c) == CHOOSE i \in 1..Len(AsciiOrder) : AsciiOrder[i] = c

\* fh.read(n)
read(text, n) == SliceTo(text, IF Len(text) < n THEN Len(text) ELSE n)

\* line.count(char) for a single character
count_char(line, c) == Cardinality({i \in 1..Len(line) : line[i] = c})

\* s.count(p): occurrences of p, scanned left to right without overlap
RECURSIVE count(_, _)
count(s, p) ==
    LET i == find(s, p)
    IN  IF i = -1 THEN 0 ELSE 1 + count(SliceFrom(s, i + Len(p)), p)

\* list(filter(None, data.split("\n")))
sample_lines(sample) == SelectSeq(split(sample, <<NL>>), LAMBDA l : l # <<>>)

\* Sniffer._guess_delimiter, for a sample of fewer than ten lines (a single
\* chunk): the characters met the same number of times on every line
consistent_chars(lines) ==
    {c \in {lines[1][i] : i \in 1..Len(lines[1])} :
        \A n \in 1..Len(lines) : count_char(lines[n], c) = count_char(lines[1], c)}

\* the delimiter among several consistent characters: the first preferred
\* one, else the greatest by (frequency, character)
pick_delimiter(lines, delims) ==
    LET hits == {i \in 1..Len(PREFERRED) : PREFERRED[i] \in delims}
    IN  IF hits # {}
        THEN PREFERRED[CHOOSE i \in hits : \A j \in hits : i <= j]
        ELSE CHOOSE c \in delims : \A e \in delims :
                 \/ count_char(lines[1], e) < count_char(lines[1], c)
                 \/ /\ count_char(lines[1], e) = count_char(lines[1], c)
                    /\ ord(e) <= ord(c)

\* the dialect sniff could not determine: sniff raises csv.Error
NO_DIALECT == [delimiter |-> "", skipinitialspace |-> FALSE]

\* csv.Sniffer().sniff(sample), for a sample without quote characters
sniff(sample) ==
    LET lines == sample_lines(sample)
        delims == IF lines = <<>> THEN {} ELSE consistent_chars(lines)
        d == IF Cardinality(delims) = 1 THEN CHOOSE c \in delims : TRUE
             ELSE pick_delimiter(lines, delims)
    IN  IF delims = {} THEN NO_DIALECT
        ELSE [delimiter |-> d,
              skipinitialspace |->
                  count(lines[1], <<d>>) = count(lines[1], <<d, SP>>)]

\* the spaces the reader skips at the start of a field
RECURSIVE skip_spaces(_)
skip_spaces(s) ==
    IF s # <<>> /\ Head(s) = SP THEN skip_spaces(Tail(s)) ELSE s

\* the cells csv.reader cuts one line into (no quote characters)
reader_row(line, dialect) ==
    LET cells == split(line, <<dialect.delimiter>>)
    IN  IF dialect.skipinitialspace
        THEN [i \in 1..Len(cells) |-> skip_spaces(cells[i])]
        ELSE cells

\* dict(zip(fieldnames, row))
RECURSIVE dict_zip(_, _, _)
dict_zip(keys, values, acc) ==
    IF keys = <<>> \/ values = <<>> THEN acc
    ELSE dict_zip(Tail(keys), Tail(values),
                  dict_set(acc, Head(keys), Head(values)))

\* for key in fieldnames[lr:]: d[key] = self.restval
RECURSIVE dict_fill(_, _)
dict_fill(d, keys) ==
    IF keys = <<>> THEN d
    ELSE dict_fill(dict_set(d, Head(keys), NONE), Tail(keys))

\* DictReader.__next__: the row as a dict; cells beyond the header go
\* under the key None, headers beyond the cells get the value None
reader_dict(fieldnames, row) ==
    LET d == dict_zip(fieldnames, row, <<>>)
        lf == Len(fieldnames)
        lr == Len(row)
    IN  IF lf < lr THEN dict_set(d, NONE, SubSeq(row, lf + 1, lr))
        ELSE IF lf > lr THEN dict_fill(d, SubSeq(fieldnames, lr + 1, lf))
        ELSE d

\* csv.DictReader(fh, dialect=dialect): the first line is the header, an
\* empty line is no row
DictReader(text, dialect) ==
    LET lines == split(text, <<NL>>)
        fieldnames == IF lines[1] = <<>> THEN <<>>
                      ELSE reader_row(lines[1], dialect)
        data == SelectSeq(Tail(lines), LAMBDA l : l # <<>>)
    IN  [n \in 1..Len(data) |-> reader_dict(fieldnames, reader_row(data[n], dialect))]

\* load_anvl_as_dict_from_tsv, drained: the rows it yielded and the
\* exception that ended it, if any
load_anvl_as_dict_from_tsv(text) ==
    LET body == universal_newlines(text)
        dialect == sniff(read(body, SNIFF_SAMPLE))
    IN  IF dialect = NO_DIALECT THEN [err |-> "csv.Error", rows |-> <<>>]
        ELSE [err |-> "", rows |-> DictReader(body, dialect)]

\* ": ".join((k, anvl_dict[k])) raises TypeError on a None key or value
joinable(d) == \A i \in 1..Len(d) : d[i][1] # NONE /\ d[i][2] # NONE

\* load_anvl_as_str_from_tsv, drained: build_anvl of every row, up to the
\* first row build_anvl raises on
load_anvl_as_str_from_tsv(text) ==
    LET loaded == load_anvl_as_dict_from_tsv(text)
        bad == {n \in 1..Len(loaded.rows) : ~joinable(loaded.rows[n])}
        stop == IF bad = {} THEN Len(loaded.rows) + 1
                ELSE CHOOSE n \in bad : \A m \in bad : n <= m
    IN  [err |-> IF loaded.err # "" THEN loaded.err
                 ELSE IF bad # {} THEN "TypeError" ELSE "",
         rows |-> [n \in 1..(stop - 1) |-> build_anvl(loaded.rows[n])]]

\* ---- the files

Delimiters == {",", "\t"}

\* the delimiter a file does not use
other_delimiter(d) == IF d = "," THEN "\t" ELSE ","

\* the headers arkimedes documents for its delimited files
DC_CREATOR == <<"d", "c", ".", "c", "r", "e", "a", "t", "o", "r">>
DC_TITLE == <<"d", "c", ".", "t", "i", "t", "l", "e">>
DC_DATE == <<"d", "c", ".", "d", "a", "t", "e">>
TARGET_HEADER == <<"_", "t", "a", "r", "g", "e", "t">>
DC_TYPE == <<"d", "c", ".", "t", "y", "p", "e">>
DC_PUBLISHER == <<"d", "c", ".", "p", "u", "b", "l", "i", "s", "h", "e", "r">>

EZID_HEADER == <<DC_CREATOR, DC_TITLE, DC_DATE, TARGET_HEADER, DC_TYPE>>

\* the publisher the older build_anvl writes when it is given none
PUBLISHER == <<"I", "o", "w", "a", " ", "S", "t", "a", "t", "e", " ", "U", "n", "i", "v", "e", "r", "s", "i", "t", "y",
              " ", "L", "i", "b", "r", "a", "r", "y">>

HEADER2 == <<<<"h", "1">>, <<"h", "2">>>>
HEADER3 == <<<<"h", "1">>, <<"h", "2">>, <<"h", "3">>>>

WIDE == [i \in 1..WideLen |-> "w"]

\* rows of width w with cells from cs
RowsOver(cs, w) == UNION {[1..r -> [1..w -> cs]] : r \in 0..MaxTsvRows}

\* the text of a file: the header line and the rows, cells joined by d
file_text(d, header, rows, end) ==
    join(<<NL>>, [i \in 1..(Len(rows) + 1) |->
                     join(<<d>>, IF i = 1 THEN header ELSE rows[i - 1])]) \o end

\* well-formed files: every row has one cell per header, no cell holds the
\* file's delimiter; the last line ends with a newline or does not
TsvFiles ==
    LET shapes(d) ==
            ({HEADER2} \X RowsOver({<<>>, <<"a">>, <<"b">>,
                                    <<"a", other_delimiter(d), "b">>}, 2))
            \cup ({HEADER3} \X RowsOver({<<"a">>, <<"b">>}, 3))
            \cup ({HEADER2} \X (RowsOver({<<"a">>, WIDE}, 2) \ RowsOver({<<"a">>}, 2)))
            \cup {<<EZID_HEADER, <<<<<<"a">>, <<"b">>, <<"a">>, <<"b">>, <<"a">>>>>>>>}
    IN  UNION {{[delimiter |-> d, header |-> s[1], rows |-> s[2],
                 text |-> file_text(d, s[1], s[2], end)] :
                    s \in shapes(d), end \in {<<>>, <<NL>>}} : d \in Delimiters}

NoLoad == [err |-> "", rows |-> <<>>]

NoFile == [delimiter |-> "", header |-> <<>>, rows |-> <<>>, text |-> <<>>]

TsvIdle ==
    /\ tsv_pc = "none"
    /\ tsv_file = NoFile
    /\ tsv_dicts = NoLoad
    /\ tsv_strs = NoLoad

TsvInit ==
    /\ tsv_pc = "dict"
    /\ tsv_file \in TsvFiles
    /\ tsv_dicts = NoLoad
    /\ tsv_strs = NoLoad

\* list(load_anvl_as_dict_from_tsv(tsv_file))
LoadAnvlAsDictFromTsv ==
    /\ tsv_pc = "dict"
    /\ tsv_dicts' = load_anvl_as_dict_from_tsv(tsv_file.text)
    /\ tsv_pc' = "str"
    /\ UNCHANGED <<tsv_file, tsv_strs>>
    /\ UNCHANGED <<codecVars, pollVars, lifeVars, cacheVars, queryVars,
                   runVars>>

\* list(load_anvl_as_str_from_tsv(tsv_file))
LoadAnvlAsStrFromTsv ==
    /\ tsv_pc = "str"
    /\ tsv_strs' = load_anvl_as_str_from_tsv(tsv_file.text)
    /\ tsv_pc' = "done"
    /\ UNCHANGED <<tsv_file, tsv_dicts>>
    /\ UNCHANGED <<codecVars, pollVars, lifeVars, cacheVars, queryVars,
                   runVars>>

TsvNext == LoadAnvlAsDictFromTsv \/ LoadAnvlAsStrFromTsv

-----------------------------------------------------------------------------
(* A run of the package entry point, src/src/arkimedes/__main__.py: main   *)
(* for mint-anvl, mint-tsv, update and update-tsv, and submit_md, over the *)
(* registry's search (query) and its mint and update requests              *)
(* (upload_anvl).                                                          *)

\* most runs, one after the other
MaxRuns == 2

REUSE == <<"r", "e", "u", "s", "e">>
REUSE_UPPER == <<"R", "E", "U", "S", "E">>

\* a title that holds the word and more
NO_REUSE == <<"n", "o", " ", "r", "e", "u", "s", "e">>

\* reusable_p = re.compile(r"^reuse$", re.I); reusable_p.match(title)
\* `$` matches at the end and before a newline that ends the string
reusable_p_match(title) ==
    /\ Len(title) \in {Len(REUSE), Len(REUSE) + 1}
    /\ \A i \in 1..Len(REUSE) : title[i] \in {REUSE[i], REUSE_UPPER[i]}
    /\ Len(title) = Len(REUSE) + 1 => title[Len(title)] = NL

\* the records submitted
RECORD_LETTER ==
    K_TARGET \o <<COLON, SP, "t", "1", NL>> \o K_DC_TITLE \o <<COLON, SP>> \o LETTER

\* a record that carries no title
RECORD_BARE == K_TARGET \o <<COLON, SP, "t", "2">>

RunRecords == {RECORD_LETTER, RECORD_BARE}

\* the --source argument: an ANVL string or the text of an ANVL file, one
\* or more records with a blank line between them and an ending; a file
\* may have lines that end in "\r\n"
RunSources ==
    {s \in {[kind |-> k, records |-> rs, text |-> join(gap, rs) \o end] :
               k \in {"inline", "file"},
               rs \in UNION {[1..n -> RunRecords] : n \in 1..MaxBatch},
               gap \in {<<NL, NL>>, <<CR, NL, CR, NL>>},
               end \in FileEnds} :
        /\ s.kind = "inline" =>
               /\ \E i \in 1..Len(s.text) : s.text[i] = NL
               /\ \A i \in 1..Len(s.text) : s.text[i] # CR
        /\ Len(s.records) = 1 => \A i \in 1..Len(s.text) : s.text[i] # CR}

\* the --source arguments of an update run: main hands each to submit_md
\* as the record, as it stands
UpdateSources ==
    {[kind |-> "args", records |-> rs, text |-> <<>>] :
        rs \in UNION {[1..n -> RunRecords] : n \in 1..MaxBatch}}

\* the delimited files of a mint-tsv or update-tsv run: a header line and
\* one or two rows, the second with an empty title
RunTsvSources ==
    {[kind |-> "tsv", records |-> rows,
      text |-> file_text("\t", <<K_TARGET, K_DC_TITLE>>, rows, <<NL>>)] :
        rows \in {<< <<<<"t", "1">>, LETTER>> >>,
                  << <<<<"t", "1">>, LETTER>>, <<<<"t", "2">>, <<>> >> >>}}

\* the identifiers an update run names on the command line
UpdateTargets == {SHOULDER \o <<"1">>, UNKNOWN_ARK}

NoSource == [kind |-> "none", records |-> <<>>, text |-> <<>>]

\* load_anvl_as_str: list(fh.read().split("\n\n"))
load_anvl_as_str(text) == split(universal_newlines(text), <<NL, NL>>)

\* main lines 173-184, 200-203 and 228-234: the records submit_md is
\* called with
records_of(source) ==
    IF source.kind = "inline" THEN split(source.text, <<NL, NL>>)
    ELSE IF source.kind = "file" THEN load_anvl_as_str(source.text)
    ELSE IF source.kind = "tsv" THEN load_anvl_as_str_from_tsv(source.text).rows
    ELSE source.records

\* get_value_from_anvl_string(field, anvl): [err, value]; value is NONE
\* when the record has no such field
get_value_from_anvl_string(field, text) ==
    LET r == anvl_to_dict(text)
    IN  [err |-> r.err,
         value |-> IF ~r.err /\ dict_has(r.d, field) THEN dict_at(r.d, field)
                   ELSE NONE]

\* ---- the registry

\* the n-th identifier the registry mints on the shoulder
minted_id(n) == SHOULDER \o [i \in 1..n |-> "1"]

\* the registries a run may start from
Registries ==
    {[id \in {} |-> [title |-> <<>>, target |-> <<>>]],
     (minted_id(1) :> [title |-> REUSE, target |-> <<"t", "0">>]),
     (minted_id(1) :> [title |-> NO_REUSE, target |-> <<"t", "0">>])
        @@ (minted_id(2) :> [title |-> REUSE, target |-> <<"t", "3">>])}

\* the identifiers of ids in the order the registry minted them
RECURSIVE ids_in_order(_, _)
ids_in_order(ids, n) ==
    IF ids = {} THEN <<>>
    ELSE IF minted_id(n) \in ids
    THEN <<minted_id(n)>> \o ids_in_order(ids \ {minted_id(n)}, n + 1)
    ELSE ids_in_order(ids, n + 1)

\* the text nodes of the title column of a result table over the
\* identifiers order: the cell of an identifier without a title holds no
\* text node
title_nodes(order) ==
    SelectSeq([n \in 1..Len(order) |-> registry[order[n]].title],
              LAMBDA title : title # <<>>)

\* query(...) over the identifiers ids, lines 563-590: the columns are
\* zipped, so the n-th identifier comes with the n-th title there is
rows_for(ids) ==
    LET order == ids_in_order(ids, 1)
        rows == zip_longest(<<<<>>, title_nodes(order), order,
                              <<>>, <<>>, <<>>, <<>>>>)
    IN  [n \in 1..Len(rows) |-> row_dict(rows[n])]

\* find_reusable: query(title="reuse"), the titles that hold the word
find_reusable ==
    rows_for({id \in DOMAIN registry : find(registry[id].title, REUSE) # -1})

\* find_url of ezid.py: query(target=url), the answers the search may
\* give. A url of None leaves the search without its target parameter:
\* the registry may then answer with every identifier or with none
ezid_find_url(url) ==
    IF url = NONE THEN {rows_for(DOMAIN registry), <<>>}
    ELSE {rows_for({id \in DOMAIN registry : registry[id].target = url})}

\* what the registry stores for a request body, over what it held
stored(text, held) ==
    LET d == anvl_to_dict(text).d
    IN  [title |-> IF dict_has(d, K_DC_TITLE) THEN dict_at(d, K_DC_TITLE)
                   ELSE held.title,
         target |-> IF dict_has(d, K_TARGET) THEN dict_at(d, K_TARGET)
                    ELSE held.target]

\* a variant of the generator that starts over at every request
rest_restarted(rows) == rows

\* next(reusables): what is left of the generator after it yielded a row
rest_of(rows) == Tail(rows)

\* ---- the run

IdleRun ==
    [pc |-> "idle", cmd |-> "none", reuse |-> FALSE, no_url_check |-> FALSE,
     target |-> <<>>,
     source |-> NoSource, queue |-> <<>>, rec |-> 0, anvl |-> <<>>,
     action |-> "none", found |-> NONE]

RunIdle ==
    /\ run = IdleRun
    /\ reusables = <<>>
    /\ registry = [id \in {} |-> [title |-> <<>>, target |-> <<>>]]
    /\ run_log = <<>>
    /\ run_no = 0

RunInit ==
    /\ run = IdleRun
    /\ reusables = <<>>
    /\ registry \in Registries
    /\ run_log = <<>>
    /\ run_no = 0

\* a request or a generator step of submission rec of the current run
Event(rec, text, kind, to, ok) ==
    [run |-> run_no, rec |-> rec, anvl |-> text, kind |-> kind, to |-> to,
     ok |-> ok]

\* main lines 167-184, mint-anvl: reusables is made once, then the records
\* are cut
RunStart ==
    /\ run.pc = "idle"
    /\ run_no < MaxRuns
    /\ \E reuse \in BOOLEAN, no_url_check \in BOOLEAN, source \in RunSources :
          run' = [IdleRun EXCEPT !.pc = "record",
                                 !.cmd = "mint-anvl",
                                 !.reuse = reuse,
                                 !.no_url_check = no_url_check,
                                 !.target = SHOULDER,
                                 !.source = source,
                                 !.queue = records_of(source)]
    /\ reusables' = IF run'.reuse THEN find_reusable ELSE <<>>
    /\ run_no' = run_no + 1
    /\ UNCHANGED <<registry, run_log>>
    /\ UNCHANGED <<codecVars, pollVars, lifeVars, cacheVars, queryVars, tsvVars>>

\* main lines 167-171 and 200-203, mint-tsv: the rows of the file are the
\* records, submitted with the run's reusables
MintTsvStart ==
    /\ run.pc = "idle"
    /\ run_no < MaxRuns
    /\ \E reuse \in BOOLEAN, no_url_check \in BOOLEAN, source \in RunTsvSources :
          run' = [IdleRun EXCEPT !.pc = "record",
                                 !.cmd = "mint-tsv",
                                 !.reuse = reuse,
                                 !.no_url_check = no_url_check,
                                 !.target = SHOULDER,
                                 !.source = source,
                                 !.queue = records_of(source)]
    /\ reusables' = IF run'.reuse THEN find_reusable ELSE <<>>
    /\ run_no' = run_no + 1
    /\ UNCHANGED <<registry, run_log>>
    /\ UNCHANGED <<codecVars, pollVars, lifeVars, cacheVars, queryVars, tsvVars>>

\* main lines 167-171 and 228-234, update and update-tsv: the target is an
\* identifier, every --source argument (update) or every row of the file
\* (update-tsv) is a record, and submit_md is called without the run's
\* reusables, which main made all the same
UpdateStart ==
    /\ run.pc = "idle"
    /\ run_no < MaxRuns
    /\ \E reuse \in BOOLEAN, target \in UpdateTargets,
          source \in UpdateSources \cup RunTsvSources :
          run' = [IdleRun EXCEPT !.pc = "record",
                                 !.cmd = IF source.kind = "tsv" THEN "update-tsv"
                                         ELSE "update",
                                 !.reuse = reuse,
                                 !.target = target,
                                 !.source = source,
                                 !.queue = records_of(source)]
    /\ reusables' = IF run'.reuse THEN find_reusable ELSE <<>>
    /\ run_no' = run_no + 1
    /\ UNCHANGED <<registry, run_log>>
    /\ UNCHANGED <<codecVars, pollVars, lifeVars, cacheVars, queryVars, tsvVars>>

\* main: the loop over the records is over
RunEnd ==
    /\ run.pc = "record"
    /\ run.queue = <<>>
    /\ run' = [run EXCEPT !.pc = "idle"]
    /\ UNCHANGED <<reusables, registry, run_log, run_no>>
    /\ UNCHANGED <<codecVars, pollVars, lifeVars, cacheVars, queryVars, tsvVars>>

\* submit_md lines 44-45: `if "update" in args.action`, the record goes to
\* upload(args, anvl, "update") with no search and no next(reusables)
SubmitUpdate ==
    /\ run.pc = "record"
    /\ run.queue # <<>>
    /\ run.cmd \in {"update", "update-tsv"}
    /\ run' = [run EXCEPT !.queue = Tail(run.queue),
                          !.rec = run.rec + 1,
                          !.anvl = Head(run.queue),
                          !.found = NONE,
                          !.action = "update",
                          !.pc = "post"]
    /\ UNCHANGED <<reusables, registry, run_log, run_no>>
    /\ UNCHANGED <<codecVars, pollVars, lifeVars, cacheVars, queryVars, tsvVars>>

\* submit_md lines 46-57, an action that is no update: the search for the
\* record's target
SubmitRecord ==
    /\ run.pc = "record"
    /\ run.queue # <<>>
    /\ run.cmd \notin {"update", "update-tsv"}
    /\ \E rows \in ezid_find_url(
                     get_value_from_anvl_string(K_TARGET, Head(run.queue)).value) :
       LET a == Head(run.queue)
           rec == run.rec + 1
           url == get_value_from_anvl_string(K_TARGET, a)
           found == IF run.no_url_check \/ rows = <<>> THEN NONE
                    ELSE rows[1]["ark"]
       IN  IF ~run.no_url_check /\ url.err
           THEN /\ run' = [run EXCEPT !.pc = "idle", !.rec = rec, !.anvl = a]
                /\ UNCHANGED run_log
           ELSE /\ run' = [run EXCEPT
                              !.queue = Tail(run.queue),
                              !.rec = rec,
                              !.anvl = a,
                              !.found = found,
                              !.action = "mint",
                              !.pc = IF found # NONE THEN "dup_view"
                                     ELSE IF run.reuse THEN "reuse"
                                     ELSE "post"]
                /\ run_log' = IF run.no_url_check THEN run_log
                              ELSE Append(run_log,
                                          Event(rec, a, "search", url.value, TRUE))
    /\ UNCHANGED <<reusables, registry, run_no>>
    /\ UNCHANGED <<codecVars, pollVars, lifeVars, cacheVars, queryVars, tsvVars>>

\* lines 59-62: the target has an identifier; it is shown, nothing is minted
ViewFound ==
    /\ run.pc = "dup_view"
    /\ run_log' = Append(run_log,
                         Event(run.rec, run.anvl, "view", run.found, TRUE))
    /\ run' = [run EXCEPT !.pc = "record"]
    /\ UNCHANGED <<reusables, registry, run_no>>
    /\ UNCHANGED <<codecVars, pollVars, lifeVars, cacheVars, queryVars, tsvVars>>

\* lines 64-77, one turn of the loop: reusable = next(reusables); a title
\* that is the word alone is claimed, any other row is passed over, and
\* StopIteration sends the record to a mint
NextReusable ==
    /\ run.pc = "reuse"
    /\ IF reusables = <<>>
       THEN /\ run_log' = Append(run_log,
                                 Event(run.rec, run.anvl, "stop", NONE, TRUE))
            /\ run' = [run EXCEPT !.pc = "post", !.action = "mint"]
            /\ UNCHANGED reusables
       ELSE LET reusable == Head(reusables)
                claimed == reusable_p_match(strip(reusable["title"]))
            IN  /\ reusables' = rest_of(reusables)
                /\ run_log' = Append(run_log,
                                     Event(run.rec, run.anvl, "offer",
                                           reusable["ark"], claimed))
                /\ run' = IF claimed
                          THEN [run EXCEPT !.target = reusable["ark"],
                                           !.action = "update",
                                           !.pc = "post"]
                          ELSE run
    /\ UNCHANGED <<registry, run_no>>
    /\ UNCHANGED <<codecVars, pollVars, lifeVars, cacheVars, queryVars, tsvVars>>

\* upload and upload_anvl lines 619-633: the POST to /shoulder/<target> or
\* /id/<target>; the registry mints on a shoulder it knows and updates an
\* identifier it holds
Post ==
    /\ run.pc = "post"
    /\ LET accepted == IF run.action = "mint" THEN run.target \in Shoulders
                       ELSE run.target \in DOMAIN registry
           new == minted_id(Cardinality(DOMAIN registry) + 1)
       IN  /\ run_log' = Append(run_log,
                                Event(run.rec, run.anvl, run.action,
                                      run.target, accepted))
           /\ registry' =
                  IF ~accepted THEN registry
                  ELSE IF run.action = "mint"
                  THEN registry @@
                       (new :> stored(run.anvl, [title |-> <<>>, target |-> new]))
                  ELSE [registry EXCEPT ![run.target] = stored(run.anvl, @)]
    /\ run' = [run EXCEPT !.pc = "record"]
    /\ UNCHANGED <<reusables, run_no>>
    /\ UNCHANGED <<codecVars, pollVars, lifeVars, cacheVars, queryVars, tsvVars>>

RunNext ==
    \/ RunStart
    \/ MintTsvStart
    \/ UpdateStart
    \/ RunEnd
    \/ SubmitUpdate
    \/ SubmitRecord
    \/ ViewFound
    \/ NextReusable
    \/ Post

-----------------------------------------------------------------------------
vars == <<codecVars, pollVars, lifeVars, cacheVars, queryVars, tsvVars,
          runVars>>

InitCodec ==
    CodecInit /\ PollIdle /\ LifeIdle /\ CacheIdle /\ QueryIdle /\ TsvIdle /\ RunIdle

SpecCodec == InitCodec /\ [][CodecNext]_vars

InitPoll ==
    PollInit /\ CodecIdle /\ LifeIdle /\ CacheIdle /\ QueryIdle /\ TsvIdle /\ RunIdle

SpecPoll == InitPoll /\ [][PollNext]_vars

Init ==
    LifeInit /\ CodecIdle /\ PollIdle /\ CacheIdle /\ QueryIdle /\ TsvIdle /\ RunIdle

Spec == Init /\ [][Next]_vars

InitCache ==
    CacheInit /\ CodecIdle /\ PollIdle /\ QueryIdle /\ TsvIdle /\ RunIdle

SpecCache == InitCache /\ [][CacheNext]_vars

InitQuery ==
    QueryInit /\ CodecIdle /\ PollIdle /\ LifeIdle /\ CacheIdle /\ TsvIdle /\ RunIdle

SpecQuery == InitQuery /\ [][QueryNext]_vars

InitTsv ==
    TsvInit /\ CodecIdle /\ PollIdle /\ LifeIdle /\ CacheIdle /\ QueryIdle /\ RunIdle

SpecTsv == InitTsv /\ [][TsvNext]_vars

InitRun ==
    RunInit /\ CodecIdle /\ PollIdle /\ LifeIdle /\ CacheIdle /\ QueryIdle /\ TsvIdle

SpecRun == InitRun /\ [][RunNext]_vars

-----
(* Properties of the codec, checked under SpecCodec.                       *)

\* the characters of s
chars(s) == {s[i] : i \in 1..Len(s)}

\* s has no leading and no trailing whitespace
Trimmed(s) == strip(s) = s

\* every key and value is non-empty and trimmed, and no key holds a colon
CleanMapping(m) ==
    \A i \in 1..Len(m) :
        /\ m[i][1] # <<>> /\ Trimmed(m[i][1]) /\ COLON \notin chars(m[i][1])
        /\ m[i][2] # <<>> /\ Trimmed(m[i][2])

RoundTripDone == codec_kind = "dict" /\ codec_pc = "done"

\* C8 as stated: for every mapping of non-empty, newline-free keys and
\* values, anvl_to_dict(build_anvl(m)) = m, field order included.
C8_RoundTripAnyMapping ==
    RoundTripDone => decoded = [err |-> FALSE, d |-> anvl_dict]

\* C8 amended: for every mapping whose keys and values are non-empty,
\* newline-free and free of leading and trailing whitespace, and whose keys
\* hold no colon, anvl_to_dict(build_anvl(m)) = m, field order included.
C8_RoundTripCleanMapping ==
    (RoundTripDone /\ CleanMapping(anvl_dict))
        => decoded = [err |-> FALSE, d |-> anvl_dict]

\* a clean two-field mapping with a colon in a value went through both calls
C8_Witness ==
    /\ RoundTripDone
    /\ CleanMapping(anvl_dict)
    /\ Len(anvl_dict) = 2
    /\ COLON \in chars(anvl_dict[1][2])
    /\ decoded.d = anvl_dict

\* the body is exactly the records joined by a blank line
JoinedBody == anvl = join(<<NL, NL>>, records)

\* C9 as stated: anvls_to_dict of N records joined by a blank line returns
\* N mappings, the i-th equal to anvl_to_dict of the i-th record's text.
C9_EachRecordDecodedAlone ==
    (codec_kind = "records" /\ codec_pc = "done" /\ JoinedBody)
        => /\ ~decoded.err
           /\ Len(decoded.ds) = Len(records)
           /\ \A i \in 1..Len(records) :
                  decoded.ds[i] = anvl_to_dict(records[i]).d

\* C9 amended: anvls_to_dict of N records joined by a blank line, when the
\* joined text neither begins nor ends with whitespace and every record
\* decodes alone, returns N mappings, the i-th equal to anvl_to_dict of the
\* i-th record's text.
C9_EachRecordOfTrimmedBodyDecodedAlone ==
    (codec_kind = "records" /\ codec_pc = "done" /\ JoinedBody
        /\ Trimmed(anvl)
        /\ \A i \in 1..Len(records) : ~anvl_to_dict(records[i]).err)
        => /\ ~decoded.err
           /\ Len(decoded.ds) = Len(records)
           /\ \A i \in 1..Len(records) :
                  decoded.ds[i] = anvl_to_dict(records[i]).d

\* two records, the first a padded identifier line and the second of two
\* lines, were decoded from a trimmed body
C9_Witness ==
    /\ codec_kind = "records"
    /\ codec_pc = "done"
    /\ JoinedBody
    /\ Trimmed(anvl)
    /\ Len(records) = 2
    /\ records[1] = <<":", ":", " ", "a", " ">>
    /\ NL \in chars(records[2])
    /\ Len(decoded.ds) = 2
    /\ decoded.ds[1] = << <<ARK_KEY, <<"a", " ">> >> >>

\* C10: a line that is not an identifier line is cut at its first colon
\* only: the key is the trimmed text before it, the value the whole trimmed
\* text after it.
C10_FirstColonOnly ==
    (codec_kind = "line" /\ codec_pc = "done"
        /\ COLON \in chars(anvl) /\ ~startswith(anvl, <<COLON, COLON>>))
        => \E i \in 1..Len(anvl) :
              /\ anvl[i] = COLON
              /\ \A j \in 1..(i - 1) : anvl[j] # COLON
              /\ decoded = [err |-> FALSE,
                            d |-> << <<strip(SubSeq(anvl, 1, i - 1)),
                                       strip(SubSeq(anvl, i + 1, Len(anvl)))>> >>]

\* a line whose value holds a colon was decoded, and the value kept it
C10_Witness ==
    /\ codec_kind = "line"
    /\ codec_pc = "done"
    /\ anvl = <<"a", ":", "a", ":">>
    /\ decoded.d = << << <<"a">>, <<"a", ":">> >> >>

-----------------------------------------------------------------------------
(* Properties of batch_download, checked under SpecPoll.                   *)

\* batch_download ran and returned to its caller
PollReturned == poll_pc = "returned" /\ printed # <<>>

\* C3 as stated: when the export URL answers non-200 to the first k GETs
\* (k < 60) and 200 afterwards, batch_download returns having sent exactly
\* k + 1 GETs, written the file once with the body of the first 200 answer,
\* and reported the file name.
C3_ExactlyKPlusOneGets ==
    (PollReturned /\ ready_after < MaxAttempts)
        => /\ gets = ready_after + 1
           /\ file = <<ready_after + 1>>
           /\ printed[Len(printed)] = "file_name"

\* C4 as stated: when the export URL never answers 200, batch_download
\* returns after exactly 60 GETs, with no file written and the failure
\* reported with the export URL.
C4_SixtyGetsThenFailure ==
    (PollReturned /\ r_status # HTTP_OK)
        => /\ gets = MaxAttempts
           /\ file = <<>>
           /\ printed[Len(printed)] = "download_failed_url"

-----------------------------------------------------------------------------
(* Properties of the identifier lifecycle, checked under Spec.             *)

\* the mint and update requests among calls
posts(calls) == SelectSeq(calls, LAMBDA c : c.kind \in {"mint", "update"})

\* every call was answered with success
all_ok(calls) == \A i \in 1..Len(calls) : calls[i].res = "ok"

\* submissions i and i + 1 are mint-path submissions of the same target, the
\* first found no cached record for it, and the registry accepted every call
SameTargetTwice(i) ==
    /\ submissions[i].action = "mint"
    /\ submissions[i + 1].action = "mint"
    /\ K_TARGET \in DOMAIN submissions[i].anvl
    /\ K_TARGET \in DOMAIN submissions[i + 1].anvl
    /\ submissions[i].anvl[K_TARGET] = submissions[i + 1].anvl[K_TARGET]
    /\ ~submissions[i].found
    /\ all_ok(submissions[i].calls)
    /\ all_ok(submissions[i + 1].calls)

\* C1 as stated: of two mint-path submissions of the same target run one
\* after the other, the first finding no cached record and every registry
\* call succeeding, the first sends exactly one mint and nothing else, and
\* the second ends in DuplicateTarget having sent no mint and no update:
\* one mint call in total.
C1_SecondSubmissionIsDuplicate ==
    ~concurrent =>
        \A i \in 1..(Len(submissions) - 1) :
            SameTargetTwice(i) =>
                /\ Len(posts(submissions[i].calls)) = 1
                /\ posts(submissions[i].calls)[1].kind = "mint"
                /\ submissions[i + 1].outcome = "DuplicateTarget"
                /\ posts(submissions[i + 1].calls) = <<>>

\* C1 amended: of two such submissions the first sends exactly one write
\* to the registry and the second none, ending in DuplicateTarget. The
\* write is a mint when the first submission did not ask for reuse or no
\* cached record was reusable, and otherwise an update of the reusable
\* identifier it claimed: the two submissions then make no mint at all.
C1_OneWriteThenDuplicate ==
    ~concurrent =>
        \A i \in 1..(Len(submissions) - 1) :
            SameTargetTwice(i) =>
                /\ Len(posts(submissions[i].calls)) = 1
                /\ ~submissions[i].reuse => submissions[i].claimed = NONE
                /\ submissions[i].claimed = NONE
                       => posts(submissions[i].calls)[1].kind = "mint"
                /\ submissions[i].claimed # NONE
                       => /\ posts(submissions[i].calls)[1].kind = "update"
                          /\ posts(submissions[i].calls)[1].to
                                 = submissions[i].claimed
                /\ submissions[i + 1].outcome = "DuplicateTarget"
                /\ posts(submissions[i + 1].calls) = <<>>

\* a target was minted and then submitted again
C1_Witness ==
    /\ ~concurrent
    /\ Len(submissions) = 2
    /\ SameTargetTwice(1)
    /\ submissions[1].outcome = "Mint"
    /\ posts(submissions[1].calls)[1].kind = "mint"
    /\ submissions[2].outcome = "DuplicateTarget"

\* C2 as stated: of two reuse-requesting submissions with distinct targets
\* whose registry calls all succeed, at most one claims a given reusable
\* identifier and sends an update against it.
C2_ReusableClaimedOnce ==
    \A i, j \in 1..Len(submissions) :
        (/\ i # j
         /\ submissions[i].reuse /\ submissions[j].reuse
         /\ fget(submissions[i].anvl, K_TARGET, NONE)
              # fget(submissions[j].anvl, K_TARGET, NONE)
         /\ all_ok(submissions[i].calls) /\ all_ok(submissions[j].calls)
         /\ submissions[i].claimed # NONE)
            => /\ submissions[j].claimed # submissions[i].claimed
               /\ \A n \in 1..Len(submissions[j].calls) :
                      ~(/\ submissions[j].calls[n].kind = "update"
                        /\ submissions[j].calls[n].to = submissions[i].claimed)

\* C5: no submission, ended or under way, has sent more than one mint or
\* update request, whatever the registry answered.
C5_AtMostOnePost ==
    /\ \A i \in 1..Len(submissions) : Len(posts(submissions[i].calls)) <= 1
    /\ \A p \in Procs : Len(posts(proc[p].calls)) <= 1

\* a submission whose mint the registry refused went on and ended
C5_Witness ==
    \E i \in 1..Len(submissions) :
        /\ Len(posts(submissions[i].calls)) = 1
        /\ posts(submissions[i].calls)[1].res = "rejected"
        /\ submissions[i].outcome # "Crash"

\* a submission whose dedup check found a record is in the duplicate branch
\* and has sent no write; once ended it has made at most one call, a view
DuplicateBranchOnly ==
    /\ \A p \in Procs :
          proc[p].found =>
              /\ proc[p].pc \in {"dup_find", "dup_view"}
              /\ proc[p].calls = <<>>
    /\ \A i \in 1..Len(submissions) :
          submissions[i].found =>
              /\ submissions[i].outcome \in {"DuplicateTarget", "Crash"}
              /\ Len(submissions[i].calls) <= 1
              /\ submissions[i].outcome = "DuplicateTarget"
                     => Len(submissions[i].calls) = 1
              /\ \A n \in 1..Len(submissions[i].calls) :
                     submissions[i].calls[n].kind = "view"

\* a step of a submission whose dedup check found a record leaves the cache
\* and the registry as they are, and the view it sends is of the identifier
\* of the row found, a row with the submitted target
DuplicateBranchStep ==
    \A p \in Procs :
        (proc[p].found /\ proc'[p] # proc[p])
            => /\ db' = db
               /\ ezid' = ezid
               /\ proc[p].pc = "dup_view"
                      => /\ proc[p].ark_obj[1][A_TARGET] = proc[p].anvl[K_TARGET]
                         /\ submissions'[Len(submissions')].calls[1].to
                                = proc[p].ark_obj[1][A_ARK]

\* C6: when the dedup check finds a record with the submitted target, the
\* submission ends with the cache unchanged and no mint or update sent; its
\* only registry call is a view of the existing identifier.
C6_DuplicateLeavesCacheAlone ==
    [](DuplicateBranchOnly) /\ [][DuplicateBranchStep]_vars

\* a submission found its target cached and ended in DuplicateTarget
C6_Witness ==
    \E i \in 1..Len(submissions) :
        /\ submissions[i].found
        /\ submissions[i].outcome = "DuplicateTarget"
        /\ submissions[i].calls[1].res = "ok"
        /\ \E n \in 1..Len(db) : db[n][A_TARGET] = submissions[i].anvl[K_TARGET]

\* C7 as stated: a mint or update the registry did not answer with success
\* ends in an error: no submission goes on with what upload_anvl returned.
C7_FailedUploadRaises ==
    \A p \in Procs :
        \A n \in 1..Len(proc[p].calls) :
            proc[p].calls[n].kind \in {"mint", "update"}
                => /\ proc[p].calls[n].res = "ok"
                   /\ proc[p].ark \in DOMAIN ezid

-----------------------------------------------------------------------------
(* Properties of the cache functions, checked under SpecCache.             *)

\* the rows of cache c whose ark is ark
rows_of(c, ark) == SelectSeq(c, LAMBDA row : row[A_ARK] = ark)

\* the columns that the keys of ark_dict name
named_columns(ark_dict) == {attr_name(k) : k \in dict_keys(ark_dict)} \cap Columns

\* update_db_record was called on an identifier that had a row
UpdatedExisting == cache_pc = "updated" /\ rows_of(cache0, q_ark) # <<>>

\* C11: update_db_record on an existing row leaves every other row as it
\* was, and of that row every column no key of the mapping names; the
\* columns named take the mapping's values. A call that raises writes
\* nothing.
C11_MergeNotReplace ==
    UpdatedExisting =>
        IF q_ret.err THEN db = cache0
        ELSE /\ Len(db) = Len(cache0)
             /\ \A i \in 1..Len(cache0) :
                   IF cache0[i][A_ARK] # q_ark THEN db[i] = cache0[i]
                   ELSE \A c \in Columns :
                           IF c \in named_columns(q_dict)
                           THEN \E n \in 1..Len(q_dict) :
                                   /\ attr_name(q_dict[n][1]) = c
                                   /\ db[i][c] = q_dict[n][2]
                           ELSE db[i][c] = cache0[i][c]

\* the second of two rows got a new target; its title and the first row stayed
C11_Witness ==
    /\ UpdatedExisting
    /\ ~q_ret.err
    /\ q_dict = << <<K_TARGET, <<"t", "2">> >> >>
    /\ Len(cache0) = 2
    /\ cache0[2][A_ARK] = q_ark
    /\ cache0[2][A_TARGET] = <<"t", "1">>
    /\ cache0[2][A_DC_TITLE] = FRONT
    /\ db[2][A_TARGET] = <<"t", "2">>
    /\ db[2][A_DC_TITLE] = FRONT
    /\ db[1] = cache0[1]

\* C12 as stated: update_db_record on an identifier with no row raises for
\* every mapping, the empty one included, and leaves the cache as it was.
C12_UnknownIdentifierRaises ==
    (cache_pc = "updated" /\ rows_of(cache0, q_ark) = <<>>)
        => q_ret.err /\ db = cache0

\* row is among the rows of c with the lowest created
oldest_of(row, c) ==
    \A i \in 1..Len(c) : row[A_CREATED] <= c[i][A_CREATED]

\* C13 as stated: find_replaceable().first() returns a reusable row with the
\* lowest created of all reusable rows, and find_url(url).first() a row with
\* the lowest created of all rows with that target, whatever the order the
\* rows were inserted in.
C13_OldestFirst ==
    /\ (cache_pc = "found_replaceable" /\ find_replaceable # <<>>)
          => /\ q_ret # <<>>
             /\ oldest_of(q_ret[1], find_replaceable)
    /\ (cache_pc = "found_url" /\ find_url(q_url) # <<>>)
          => /\ q_ret # <<>>
             /\ oldest_of(q_ret[1], find_url(q_url))

\* s without the one newline that may end it
chomp(s) ==
    IF s # <<>> /\ s[Len(s)] = NL THEN SubSeq(s, 1, Len(s) - 1) ELSE s

\* s is prefix followed by one or more decimal digits
numbered(s, prefix) ==
    /\ startswith(s, prefix)
    /\ Len(s) > Len(prefix)
    /\ \A i \in (Len(prefix) + 1)..Len(s) : s[i] \in Digits

\* C14 as stated: input_is_replaceable(title) is true exactly when title, in
\* any letter case, is empty, Front, Back, Page N or p. N.
C14_AnyCasePlaceholder ==
    cache_pc = "matched" =>
        (q_ret <=> \/ lower(q_title) \in {<<>>, <<"f", "r", "o", "n", "t">>,
                                          <<"b", "a", "c", "k">>}
                   \/ numbered(lower(q_title), <<"p", "a", "g", "e", " ">>)
                   \/ numbered(lower(q_title), <<"p", ".", " ">>))

\* C14 amended: input_is_replaceable(title) is true exactly when title, less
\* one newline that may end it, is empty, Front, front, Back, back, or Page,
\* page, P. or p. followed by a space and one or more decimal digits: only
\* the first letter is taken in either case.
C14_FirstLetterCasePlaceholder ==
    cache_pc = "matched" =>
        (q_ret <=> \/ chomp(q_title) \in {<<>>,
                                          <<"F", "r", "o", "n", "t">>,
                                          <<"f", "r", "o", "n", "t">>,
                                          <<"B", "a", "c", "k">>,
                                          <<"b", "a", "c", "k">>}
                   \/ \E prefix \in {<<"P", "a", "g", "e", " ">>,
                                     <<"p", "a", "g", "e", " ">>,
                                     <<"P", ".", " ">>, <<"p", ".", " ">>} :
                          numbered(chomp(q_title), prefix))

\* FRONT was tested and is no placeholder title
C14_Witness ==
    /\ cache_pc = "matched"
    /\ q_title = <<"F", "R", "O", "N", "T">>
    /\ q_ret = FALSE

-----------------------------------------------------------------------------
(* Further properties of the identifier lifecycle, checked under Spec.     *)

\* submission i asked for reuse with a placeholder title, found neither a
\* cached record for its target nor a reusable record, and the registry
\* accepted every call
PlaceholderWithNothingToReuse(i) ==
    /\ submissions[i].action = "mint"
    /\ submissions[i].reuse
    /\ ~submissions[i].found
    /\ submissions[i].claimed = NONE
    /\ fget(submissions[i].anvl, K_DC_TITLE, NONE) = FRONT
    /\ all_ok(submissions[i].calls)

\* the cache holds a row for ark that is reusable, or that a later
\* submission has claimed since
CachedReusable(ark) ==
    \E n \in 1..Len(db) :
        /\ db[n][A_ARK] = ark
        /\ \/ db[n][A_REPLACEABLE]
           \/ \E j \in 1..Len(submissions) : submissions[j].claimed = ark

\* C15: with no other process running alongside, a record titled Front,
\* submitted with reuse against a cache with no record for its target and no
\* reusable record, sends exactly one mint and no update, and the cache then
\* holds a row for the identifier minted with replaceable true.
C15_PlaceholderMintedReusable ==
    \A i \in 1..Len(submissions) :
        (~concurrent /\ PlaceholderWithNothingToReuse(i)) =>
            /\ Len(posts(submissions[i].calls)) = 1
            /\ posts(submissions[i].calls)[1].kind = "mint"
            /\ submissions[i].outcome = "Mint"
            /\ Len(submissions[i].calls) = 2
            /\ CachedReusable(submissions[i].calls[2].to)

\* on an empty cache such a submission ended and its row is reusable
C15_Witness ==
    /\ ~concurrent
    /\ Len(submissions) = 1
    /\ PlaceholderWithNothingToReuse(1)
    /\ submissions[1].outcome = "Mint"
    /\ Len(db) = 1
    /\ db[1][A_ARK] = submissions[1].calls[2].to
    /\ db[1][A_DC_TITLE] = FRONT
    /\ db[1][A_REPLACEABLE]

-----------------------------------------------------------------------------
(* Further properties of batch_download, checked under SpecPoll.           *)

\* the export request was answered, and not with a 2xx status and a body
\* that starts with the success marker
ExportRejected == poll_pc # "post" /\ (~r_post.ok \/ ~r_post.marker)

\* C16: when the export request is answered with a non-2xx status or a body
\* that does not start with `success: `, batch_download sends no GET, does
\* not sleep, writes no file, and ends the process after printing the
\* failure.
C16_RejectedExportStops ==
    ExportRejected =>
        /\ gets = 0
        /\ sleep_count = 0
        /\ file = <<>>
        /\ poll_pc \in {"posted", "exited"}
        /\ poll_pc = "exited" => printed[1] = "request_failure"

\* a 2xx answer without the success marker to a csv request ended the process
C16_Witness ==
    /\ poll_pc = "exited"
    /\ r_post.ok
    /\ ~r_post.marker
    /\ format_ = "csv"
    /\ printed = <<"request_failure", "csv_hint">>
    /\ gets = 0

-----------------------------------------------------------------------------
(* Further properties of the codec, checked under SpecCodec.               *)

\* some line of the text is not blank and holds no colon
HasLineWithoutColon ==
    \E i \in 1..Len(split(anvl, <<NL>>)) :
        /\ strip(split(anvl, <<NL>>)[i]) # <<>>
        /\ COLON \notin chars(split(anvl, <<NL>>)[i])

\* C18: anvl_to_dict of a text with a non-blank line that holds no colon
\* raises, and returns no mapping, whatever the lines before it held.
C18_LineWithoutColonRaises ==
    (codec_kind \in {"line", "text"} /\ codec_pc = "done" /\ HasLineWithoutColon)
        => decoded = [err |-> TRUE, d |-> <<>>]

\* a good line followed by a line without a colon was refused whole
C18_Witness ==
    /\ codec_kind = "text"
    /\ codec_pc = "done"
    /\ anvl = <<"a", ":", " ", "b", NL, "a">>
    /\ decoded = [err |-> TRUE, d |-> <<>>]

-----------------------------------------------------------------------------
(* Properties of runs and of the rows' identifiers.                        *)

\* C17 as stated: a run ends only when every record of its batch has been
\* submitted; a record that fails does not end it.
C17_BatchGoesOn ==
    [][\A p \in Procs :
          (proc[p].pc # "idle" /\ proc'[p].pc = "idle")
              => proc[p].queue = <<>>]_vars

\* no submission is under way
Quiescent == \A p \in Procs : proc[p].pc \in {"idle", "submit"}

\* C19 as stated: between submissions the cache holds at most one row per
\* identifier, and a row for every identifier the registry has minted.
C19_OneRowPerIdentifier ==
    Quiescent =>
        /\ \A i, j \in 1..Len(db) : i # j => db[i][A_ARK] # db[j][A_ARK]
        /\ \A id \in DOMAIN ezid : rows_of(db, id) # <<>>

\* C20 as stated: update_db_record leaves the ark of every row as it was,
\* whatever keys the mapping holds.
C20_IdentifierImmutable ==
    cache_pc = "updated" =>
        /\ Len(db) = Len(cache0)
        /\ \A i \in 1..Len(db) : db[i][A_ARK] = cache0[i][A_ARK]

-----------------------------------------------------------------------------
(* Properties of the encoder and of the trailing blank lines of a body.     *)

\* C23: build_anvl writes the empty string for the empty mapping and else
\* one line per entry, in the entries' order, the i-th line being the i-th
\* key, a colon and a space, and the i-th value, both as they are; the lines
\* are joined by single newlines and no newline ends the text.
C23_OneLinePerEntryInOrder ==
    (codec_kind = "dict" /\ codec_pc # "dict") =>
        IF anvl_dict = <<>> THEN anvl = <<>>
        ELSE /\ Len(split(anvl, <<NL>>)) = Len(anvl_dict)
             /\ \A i \in 1..Len(anvl_dict) :
                    split(anvl, <<NL>>)[i]
                        = anvl_dict[i][1] \o <<COLON, SP>> \o anvl_dict[i][2]

\* a mapping of two fields, a colon in its first value, was encoded
C23_Witness ==
    /\ codec_kind = "dict"
    /\ codec_pc = "anvl"
    /\ Len(anvl_dict) = 2
    /\ anvl_dict[1] = << <<"a", " ">>, <<"a", ":">> >>
    /\ anvl_dict[2][2] = <<":", "a">>
    /\ Len(anvl) = Len(anvl_dict[2][1]) + 11

\* C24: anvls_to_dict returns for a body what it returns for the records
\* joined by blank lines with nothing after the last one, whether one,
\* two or three newlines follow the last record; when the records decode
\* it returns as many mappings as there are records.
C24_TrailingBlankLinesIgnored ==
    (codec_kind = "records" /\ codec_pc = "done") =>
        /\ decoded = anvls_to_dict(join(<<NL, NL>>, records))
        /\ ~decoded.err => Len(decoded.ds) = Len(records)

\* two records followed by a blank line and a newline gave two mappings
C24_Witness ==
    /\ codec_kind = "records"
    /\ codec_pc = "done"
    /\ Len(records) = 2
    /\ anvl = join(<<NL, NL>>, records) \o <<NL, NL, NL>>
    /\ ~decoded.err
    /\ Len(decoded.ds) = 2
    /\ decoded.ds[2] # <<>>

-----------------------------------------------------------------------------
(* Properties of the update entry point and of what follows a POST.         *)

\* C27 as stated: a submission of the update action goes from the entry
\* to the POST and from there to the merge: it runs no dedup check and no
\* reusable lookup, sends exactly one update to the identifier the caller
\* gave and no mint, and ends as an update or in an error, never as a
\* duplicate.
C27_UpdateGoesStraightToPost ==
    /\ \A p \in Procs :
          proc[p].action = "update" =>
              /\ proc[p].pc \in {"submit", "upload", "merge", "merge_commit"}
              /\ ~proc[p].found
              /\ proc[p].replaceable = NONE
              /\ proc[p].pc = "upload" => proc[p].calls = <<>>
              /\ proc[p].pc \in {"merge", "merge_commit"} =>
                     /\ Len(proc[p].calls) = 1
                     /\ proc[p].calls[1].kind = "update"
                     /\ proc[p].calls[1].to = proc[p].target
    /\ \A i \in 1..Len(submissions) :
          submissions[i].action = "update" =>
              /\ submissions[i].outcome \in {"Update", "Crash"}
              /\ Len(submissions[i].calls) = 1
              /\ submissions[i].calls[1].kind = "update"
              /\ ~submissions[i].found
              /\ submissions[i].claimed = NONE

\* p is past a mint the registry accepted
MintAccepted(p) ==
    /\ proc[p].calls # <<>>
    /\ proc[p].calls[1].kind = "mint"
    /\ proc[p].calls[1].res = "ok"

\* p is past a mint the registry refused
MintRejected(p) ==
    /\ proc[p].calls # <<>>
    /\ proc[p].calls[1].kind = "mint"
    /\ proc[p].calls[1].res = "rejected"

\* p claimed a reusable identifier and the registry refused its update
ClaimRejected(p) ==
    /\ proc[p].replaceable # NONE
    /\ proc[p].calls # <<>>
    /\ proc[p].calls[1].kind = "update"
    /\ proc[p].calls[1].res = "rejected"

\* C28 as stated: the insert that follows an accepted mint comes after one
\* view of the identifier returned and adds one row, the viewed record,
\* under that identifier; an update is followed by no view and no insert.
C28_MintThenViewThenInsert ==
    /\ [](\A p \in Procs :
             proc[p].upload_action = "update"
                 => proc[p].pc \notin {"view_new", "insert"})
    /\ [][\A p \in Procs :
             (proc[p].pc = "insert" /\ proc'[p] # proc[p] /\ MintAccepted(p))
                 => /\ Len(proc[p].calls) = 2
                    /\ proc[p].calls[2].kind = "view"
                    /\ proc[p].calls[2].to = proc[p].ark
                    /\ proc[p].ark_obj[1][A_ARK] = proc[p].ark
                    /\ db' = Append(db, proc[p].ark_obj[1])]_vars

\* C29 as stated: no step of a submission whose claiming update the
\* registry refused changes the row of the identifier it claimed.
C29_RejectedClaimKeepsFlag ==
    [][\A p \in Procs :
          (ClaimRejected(p) /\ proc'[p] # proc[p])
              => rows_of(db', proc[p].replaceable)
                     = rows_of(db, proc[p].replaceable)]_vars

\* C30 as stated: a submission whose mint the registry refused goes on to
\* no view and no insert, and none of its steps changes the cache.
C30_RejectedMintLeavesCacheAlone ==
    [][\A p \in Procs :
          (MintRejected(p) /\ proc'[p] # proc[p])
              => /\ proc[p].pc \notin {"view_new", "insert"}
                 /\ db' = db]_vars

-----------------------------------------------------------------------------
(* query: the pages fetched and the rows returned.                         *)

\* the page count the first results page reports: 1 when it reports none
reported_pages == IF site[1].max = NONE THEN 1 ELSE int(site[1].max)

\* C21: when the first results page reports a page count M > 1, query
\* issues exactly M GETs with p = 1, 2, ..., M in that order and the
\* columns hold the cells of every page in page order; when the count is 1
\* or absent it issues exactly one GET.
C21_EveryPageFetched ==
    qry_pc = "done" =>
        LET all == while_pages(1, reported_pages,
                               [gets |-> <<>>, cols |-> NoColumns])
        IN  /\ page_gets = all.gets
            /\ columns = all.cols

\* the length of the longest accumulated column
longest_column ==
    CHOOSE n \in {Len(columns[i]) : i \in 1..Len(ColumnLists)} :
        \A i \in 1..Len(ColumnLists) : Len(columns[i]) <= n

\* C22: query returns as many rows as the longest accumulated column has
\* cells; the n-th row holds, under each key, the n-th cell of that key's
\* column, and the empty string where the column has no n-th cell.
C22_RowsFillToLongest ==
    qry_pc = "done" =>
        /\ Len(results) = longest_column
        /\ \A n \in 1..Len(results) :
              /\ DOMAIN results[n] = {RowKeys[i] : i \in 1..Len(RowKeys)}
              /\ \A i \in 1..Len(RowKeys) :
                    results[n][RowKeys[i]] =
                        IF n <= Len(columns[i]) THEN columns[i][n] ELSE <<>>

\* C22 witness: the creators column came back shorter than the identifiers
\* column, and the last row has an identifier and an empty creator.
C22_Witness ==
    /\ qry_pc = "done"
    /\ Len(columns[1]) < Len(columns[3])
    /\ Len(results) = Len(columns[3])
    /\ results[Len(results)]["creator"] = <<>>
    /\ results[Len(results)]["ark"] = columns[3][Len(columns[3])]

-----------------------------------------------------------------------------
(* The delimited-file loaders: what a well-formed file yields.             *)

\* the record text has a dc.publisher line whose value is the institution
has_publisher(text) ==
    \E n \in 1..Len(split(text, <<NL>>)) :
        LET line == split(text, <<NL>>)[n]
        IN  /\ startswith(line, DC_PUBLISHER \o <<COLON>>)
            /\ strip(SliceFrom(line, Len(DC_PUBLISHER) + 1)) = PUBLISHER

\* C25: for a file whose header is dc.creator, dc.title, dc.date, _target,
\* dc.type, with no dc.publisher column, every record
\* load_anvl_as_str_from_tsv produces has a dc.publisher field holding the
\* institution's name.
C25_PublisherDefaulted ==
    (tsv_pc = "done" /\ tsv_file.header = EZID_HEADER) =>
        /\ Len(tsv_strs.rows) = Len(tsv_file.rows)
        /\ \A n \in 1..Len(tsv_strs.rows) : has_publisher(tsv_strs.rows[n])

\* the mappings a file's rows stand for: each header with the row's cell,
\* in header order
mappings_of(f) ==
    [n \in 1..Len(f.rows) |->
        [i \in 1..Len(f.header) |-> <<f.header[i], f.rows[n][i]>>]]

\* C26: for a comma- or tab-separated file with a header line and R data
\* rows, load_anvl_as_dict_from_tsv yields exactly R mappings in row order,
\* each mapping every header to the row's cell in header order, and
\* load_anvl_as_str_from_tsv yields build_anvl of each of those mappings.
C26_EveryRowLoaded ==
    tsv_pc = "done" =>
        /\ tsv_dicts = [err |-> "", rows |-> mappings_of(tsv_file)]
        /\ tsv_strs = [err |-> "",
                       rows |-> [n \in 1..Len(tsv_file.rows) |->
                                    build_anvl(mappings_of(tsv_file)[n])]]

-----------------------------------------------------------------------------
(* The key normalization of update_db_record.                              *)

\* C31: update_db_record turns every registry field name into the attribute
\* Ark.from_anvl populates from that field, which is a column of the arks
\* table.
C31_KeysNormalizeToColumns ==
    cache_pc = "attr_set" =>
        /\ q_ret = {from_anvl_attr(key) : key \in dict_keys(q_dict)}
        /\ q_ret \subseteq ArkColumns

\* C31 witness: the key iastate.replaceable was turned into replaceable.
C31_Witness ==
    /\ cache_pc = "attr_set"
    /\ dict_keys(q_dict) = {K_REPLACEABLE}
    /\ q_ret = {A_REPLACEABLE}

-----------------------------------------------------------------------------
(* batch_download: the hint about CSV columns.                             *)

\* C32: the CSV hint is printed exactly when the export request is
\* rejected, the format is csv and no column parameters were given: not
\* for a rejected csv request that names columns, nor for another format.
C32_HintOnlyWithoutColumns ==
    poll_pc = "exited" =>
        ((\E i \in 1..Len(printed) : printed[i] = "csv_hint")
            <=> (format_ = "csv" /\ args = ""))

-----------------------------------------------------------------------------
(* load_anvl_as_dict: the mappings a file of records yields.               *)

\* C38: over a file of N records separated by blank lines,
\* load_anvl_as_dict yields exactly N mappings, the i-th holding exactly
\* the fields of the i-th record, whether or not a blank line follows the
\* last record and however many blank lines separate two records.
C38_OneMappingPerRecord ==
    (codec_kind = "file" /\ codec_pc = "done") =>
        decoded = [err |-> FALSE,
                   d |-> [i \in 1..Len(records) |-> anvl_to_dict(records[i]).d]]

-----------------------------------------------------------------------------
(* The shoulder of the mints of a batch.                                   *)

\* C34: in a run with reuse enabled every mint POST goes to the shoulder
\* the run was started with, also for a record submitted after an earlier
\* record of the batch was handled by a reuse claim.
C34_MintsGoToTheShoulder ==
    \A i \in 1..Len(submissions) :
        submissions[i].reuse =>
            \A j \in 1..Len(submissions[i].calls) :
                submissions[i].calls[j].kind = "mint"
                    => submissions[i].calls[j].to \in Shoulders

-----------------------------------------------------------------------------
(* Targets in the cache.                                                   *)

\* so far the runs came one after the other, every submission was on the
\* mint path and every registry call was answered with success
OnlySuccessfulMints ==
    /\ ~concurrent
    /\ \A i \in 1..Len(submissions) :
          submissions[i].action = "mint" /\ all_ok(submissions[i].calls)
    /\ \A p \in Procs :
          proc[p].action \in {"none", "mint"} /\ all_ok(proc[p].calls)

\* C36: after sequential mint-path submissions, with or without reuse,
\* whose registry calls all succeed, no two rows of the cache have the same
\* target. Checked from the empty cache and from every one-row cache.
C36_TargetsUnique ==
    OnlySuccessfulMints =>
        \A i, j \in 1..Len(db) : i # j => db[i][A_TARGET] # db[j][A_TARGET]

\* C36 witness: from the empty cache, a record was minted, and a second
\* record with another target was minted after it: two rows, two targets.
C36_Witness ==
    /\ OnlySuccessfulMints
    /\ Len(submissions) = 2
    /\ submissions[1].outcome = "Mint"
    /\ submissions[2].outcome = "Mint"
    /\ Len(db) = 2
    /\ db[1][A_TARGET] # db[2][A_TARGET]

-----------------------------------------------------------------------------
(* Claims about a mint-anvl run (SpecRun).                                 *)

\* C33: the rows of find_reusable are yielded once each and, once they are
\* used up, every further request finds nothing: in one run no row is
\* offered twice, whichever submission asked for it and whether it was
\* claimed or passed over, and no row is offered after a request that
\* found the rows used up.
C33_RowsAreSinglePass ==
    \A i, j \in 1..Len(run_log) :
        (/\ i < j
         /\ run_log[i].run = run_log[j].run
         /\ run_log[j].kind = "offer")
        => /\ run_log[i].kind # "stop"
           /\ run_log[i].kind = "offer" => run_log[i].to # run_log[j].to

\* C33 witness: in one run a row was passed over and the next one claimed
\* by the first submission, and the second submission's request found the
\* rows used up.
C33_Witness ==
    \E i, j, k \in 1..Len(run_log) :
        /\ i < j /\ j < k
        /\ run_log[i].run = run_log[j].run /\ run_log[j].run = run_log[k].run
        /\ run_log[i].kind = "offer" /\ ~run_log[i].ok /\ run_log[i].rec = 1
        /\ run_log[j].kind = "offer" /\ run_log[j].ok /\ run_log[j].rec = 1
        /\ run_log[k].kind = "stop" /\ run_log[k].rec = 2

\* event k is the update of a reuse claim the registry accepted: the
\* submission was offered the identifier by next(reusables) and took it
ReuseClaim(k) ==
    /\ run_log[k].kind = "update"
    /\ run_log[k].ok
    /\ \E o \in 1..(k - 1) :
           /\ run_log[o].kind = "offer" /\ run_log[o].ok
           /\ run_log[o].run = run_log[k].run
           /\ run_log[o].rec = run_log[k].rec
           /\ run_log[o].to = run_log[k].to

\* C35: over runs with --reuse, one after the other, each identifier is
\* the object of at most one accepted reuse claim, whatever fields the
\* record that recycled it carried (no record of these runs marks an
\* identifier reusable again).
C35_AtMostOneReuseClaim ==
    \A i, j \in 1..Len(run_log) :
        (i < j /\ ReuseClaim(i) /\ ReuseClaim(j))
        => run_log[i].to # run_log[j].to

\* C37: a run over an input of N records that ends with a blank line makes
\* N submissions, and no search, mint or update is made for an empty
\* record.
C37_OneSubmissionPerRecord ==
    (/\ run.pc = "idle"
     /\ run_no > 0
     /\ run.cmd = "mint-anvl"
     /\ Len(run.source.records) > 1
     /\ Len(run.source.text) >= 2
     /\ SubSeq(run.source.text, Len(run.source.text) - 1,
               Len(run.source.text)) = <<NL, NL>>)
    => /\ run.rec = Len(run.source.records)
       /\ \A i \in 1..Len(run_log) :
              run_log[i].run = run_no => strip(run_log[i].anvl) # <<>>

====
